---- MODULE Spec2Model ----
(***************************************************************************)
(* Model of the VIAVI meter provisioning tool: the MAC address utilities,  *)
(* the error classifier, the provisioning API client and the two variants  *)
(* of the provisioning page (single address and four sequential            *)
(* addresses).  Text is modelled as TLA+ strings, treated as character     *)
(* sequences (Len, SubSeq and \o apply to them).                           *)
(***************************************************************************)
EXTENDS Integers, Sequences, FiniteSets, TLC

\* JavaScript's undefined / null, and "no value" in general.
Undefined == "<undefined>"

(***************************************************************************)
(* Text helpers                                                            *)
(***************************************************************************)
CharAt(s, i) == SubSeq(s, i, i)

\* String.prototype.includes: p occurs in s.
Has(s, p) == \E i \in 1..(Len(s) - Len(p) + 1) : SubSeq(s, i, i + Len(p) - 1) = p

UpperLetters == "ABCDEFGHIJKLMNOPQRSTUVWXYZ"
LowerLetters == "abcdefghijklmnopqrstuvwxyz"
Digits == "0123456789"

IsDigit(c) == Has(Digits, c)

LowerChar(c) ==
    IF \E k \in 1..26 : CharAt(UpperLetters, k) = c
    THEN CharAt(LowerLetters, CHOOSE k \in 1..26 : CharAt(UpperLetters, k) = c)
    ELSE c

UpperChar(c) ==
    IF \E k \in 1..26 : CharAt(LowerLetters, k) = c
    THEN CharAt(UpperLetters, CHOOSE k \in 1..26 : CharAt(LowerLetters, k) = c)
    ELSE c

RECURSIVE MapChars(_, _, _)
MapChars(s, i, upper) ==
    IF i > Len(s) THEN ""
    ELSE (IF upper THEN UpperChar(CharAt(s, i)) ELSE LowerChar(CharAt(s, i)))
         \o MapChars(s, i + 1, upper)

\* String.prototype.toLowerCase / toUpperCase.
ToLowerCase(s) == MapChars(s, 1, FALSE)
ToUpperCase(s) == MapChars(s, 1, TRUE)

\* /5\d{2}/ : a 5 followed by two digits.
HasFiveXX(s) ==
    \E i \in 1..(Len(s) - 2) :
        /\ CharAt(s, i) = "5"
        /\ IsDigit(CharAt(s, i + 1))
        /\ IsDigit(CharAt(s, i + 2))

(***************************************************************************)
(* Error classification (errorUtils)                                       *)
(***************************************************************************)
ErrorCategory ==
    {"network", "cors", "server", "validation", "timeout", "config", "oui", "auth",
     "unknown"}

\* An Error object: its name and its message.
NewError(msg) == [name |-> "Error", message |-> msg]

\* ErrorContext; statusCode 0 stands for an absent status code (both are falsy).
NoStatus == 0
Context(type, url) == [type |-> type, url |-> url, statusCode |-> NoStatus]

\* The regular expressions of ERROR_PATTERNS, all case-insensitive, on a text
\* already lowercased.
PatternTest(key, text) ==
    CASE key = "cors" ->
            \/ Has(text, "cors") \/ Has(text, "cross-origin")
            \/ Has(text, "blocked by cors") \/ Has(text, "access-control-allow-origin")
      [] key = "network" ->
            \/ Has(text, "failed to fetch") \/ Has(text, "network error")
            \/ Has(text, "networkerror") \/ Has(text, "net::")
      [] key = "timeout" ->
            Has(text, "timeout") \/ Has(text, "timed out") \/ Has(text, "aborted")
      [] key = "server" ->
            \/ Has(text, "server error") \/ HasFiveXX(text) \/ Has(text, "internal server")
            \/ Has(text, "502") \/ Has(text, "503") \/ Has(text, "504")
      [] key = "validation" ->
            \/ Has(text, "validation") \/ Has(text, "400")
            \/ Has(text, "bad request") \/ Has(text, "invalid")
      [] key = "auth" ->
            \/ Has(text, "401") \/ Has(text, "403") \/ Has(text, "unauthorized")
            \/ Has(text, "forbidden") \/ Has(text, "authentication")
      [] key = "config" ->
            \/ Has(text, "config") \/ Has(text, "provision-defaults")
            \/ Has(text, "approved-ouis")
      [] OTHER -> FALSE

\* ERROR_PATTERNS, in table order.
ERROR_PATTERNS ==
    << [key |-> "cors", category |-> "cors", title |-> "Connection Blocked",
        message |-> "The browser blocked this request due to security restrictions.",
        likelyCause |-> "The backend API server is not configured to accept requests from this application.",
        suggestion |-> "Contact the API administrator to enable CORS headers, or use the application proxy.",
        isRetryable |-> FALSE],
       [key |-> "network", category |-> "network", title |-> "Network Error",
        message |-> "Unable to connect to the server.",
        likelyCause |-> "The server may be down, or there could be a network connectivity issue.",
        suggestion |-> "Check your network connection and verify the server is running.",
        isRetryable |-> TRUE],
       [key |-> "timeout", category |-> "timeout", title |-> "Request Timeout",
        message |-> "The server took too long to respond.",
        likelyCause |-> "The server may be overloaded or the network is slow.",
        suggestion |-> "Wait a moment and try again. If the problem persists, contact support.",
        isRetryable |-> TRUE],
       [key |-> "server", category |-> "server", title |-> "Server Error",
        message |-> "The server encountered an error processing your request.",
        likelyCause |-> "There may be an issue with the backend service or database.",
        suggestion |-> "This is a temporary issue. Wait a few minutes and try again.",
        isRetryable |-> TRUE],
       [key |-> "validation", category |-> "validation", title |-> "Validation Error",
        message |-> "The request contains invalid data.",
        likelyCause |-> "The MAC address format or configuration values may be incorrect.",
        suggestion |-> "Verify all input values are correct and try again.",
        isRetryable |-> FALSE],
       [key |-> "auth", category |-> "auth", title |-> "Access Denied",
        message |-> "You do not have permission to perform this action.",
        likelyCause |-> "Your session may have expired or you lack the required permissions.",
        suggestion |-> "Try refreshing the page. If the issue persists, contact your administrator.",
        isRetryable |-> FALSE],
       [key |-> "config", category |-> "config", title |-> "Configuration Error",
        message |-> "Failed to load application configuration.",
        likelyCause |-> "Configuration files may be missing or inaccessible.",
        suggestion |-> "Refresh the page. If the problem persists, contact support.",
        isRetryable |-> TRUE],
       [key |-> "oui", category |-> "oui", title |-> "OUI Not Recognized",
        message |-> "The MAC address vendor (OUI) is not in the approved list.",
        likelyCause |-> "This device manufacturer is not configured for provisioning.",
        suggestion |-> "Verify the MAC address is correct. If it is, contact your administrator to add this OUI.",
        isRetryable |-> FALSE] >>

\* Does entry k of ERROR_PATTERNS match the error (message or name) in this context?
PatternMatches(k, err, context) ==
    IF ERROR_PATTERNS[k].key = "oui"
    THEN context.type = "oui"
    ELSE \/ PatternTest(ERROR_PATTERNS[k].key, ToLowerCase(err.message))
         \/ PatternTest(ERROR_PATTERNS[k].key, ToLowerCase(err.name))

\* The status-code rules of classifyError, tried before the pattern table.
StatusRule(statusCode) ==
    IF statusCode = NoStatus THEN "none"
    ELSE IF statusCode >= 500 THEN "server"
    ELSE IF statusCode = 400 THEN "validation"
    ELSE IF statusCode = 401 \/ statusCode = 403 THEN "auth"
    ELSE "none"

StatusText(n) ==
    CASE n = 400 -> "400" [] n = 401 -> "401" [] n = 403 -> "403" [] n = 404 -> "404"
      [] n = 500 -> "500" [] n = 502 -> "502" [] n = 503 -> "503" [] n = 200 -> "200"
      [] n = 204 -> "204" [] n = 299 -> "299" [] n = 300 -> "300" [] n = 422 -> "422"
      [] n = 499 -> "499" [] n = 599 -> "599" [] OTHER -> "???"

\* The result of the status-code rule `rule`.
StatusClassified(rule, err, context) ==
    IF rule = "server" THEN
        [category |-> "server", title |-> "Server Error",
         message |-> "The server returned an error (" \o StatusText(context.statusCode) \o ").",
         likelyCause |-> "The backend service encountered an internal error.",
         suggestion |-> "Wait a moment and try again. If the problem persists, contact support.",
         technicalDetail |-> err.message, isRetryable |-> TRUE]
    ELSE IF rule = "validation" THEN
        [category |-> "validation", title |-> "Invalid Request",
         message |-> "The server rejected the request as invalid.",
         likelyCause |-> "The data sent may be in the wrong format or contain invalid values.",
         suggestion |-> "Check your input and try again.",
         technicalDetail |-> err.message, isRetryable |-> FALSE]
    ELSE
        [category |-> "auth", title |-> "Access Denied",
         message |-> "You do not have permission to perform this action.",
         likelyCause |-> "Your session may have expired or you lack the required permissions.",
         suggestion |-> "Refresh the page and try again.",
         technicalDetail |-> Undefined, isRetryable |-> FALSE]

\* Mutant of EntryClassified: every pattern entry is reported retryable.
EntryClassifiedRetryable(p, err) ==
    [category |-> p.category, title |-> p.title, message |-> p.message,
     likelyCause |-> p.likelyCause, suggestion |-> p.suggestion,
     technicalDetail |-> err.message, isRetryable |-> TRUE]

\* The classification entry p of the table gives.
EntryClassified(p, err) ==
    [category |-> p.category, title |-> p.title, message |-> p.message,
     likelyCause |-> p.likelyCause, suggestion |-> p.suggestion,
     technicalDetail |-> err.message, isRetryable |-> p.isRetryable]

\* Mutant of PatternClassified: the last matching entry of the table wins.
PatternClassifiedLast(hits, err) ==
    IF hits # {}
    THEN EntryClassified(ERROR_PATTERNS[CHOOSE k \in hits : \A j \in hits : k >= j], err)
    ELSE
        [category |-> "unknown", title |-> "Unexpected Error",
         message |-> "An unexpected error occurred.",
         likelyCause |-> "This could be a temporary issue or a bug in the application.",
         suggestion |-> "Try refreshing the page. If the problem persists, contact support.",
         technicalDetail |-> err.message, isRetryable |-> TRUE]

\* The result of the pattern loop: the first matching entry of the table (hits
\* are the entries that match), or the default.
PatternClassified(hits, err) ==
    IF hits # {}
    THEN EntryClassified(ERROR_PATTERNS[CHOOSE k \in hits : \A j \in hits : k <= j], err)
    ELSE
        [category |-> "unknown", title |-> "Unexpected Error",
         message |-> "An unexpected error occurred.",
         likelyCause |-> "This could be a temporary issue or a bug in the application.",
         suggestion |-> "Try refreshing the page. If the problem persists, contact support.",
         technicalDetail |-> err.message, isRetryable |-> TRUE]

\* Mutant of classifyError: the pattern table is tried before the status code.
classifyErrorPatternFirst(err, context) ==
    IF \E k \in 1..Len(ERROR_PATTERNS) : PatternMatches(k, err, context)
    THEN PatternClassified({k \in 1..Len(ERROR_PATTERNS) : PatternMatches(k, err, context)},
                           err)
    ELSE IF StatusRule(context.statusCode) # "none"
    THEN StatusClassified(StatusRule(context.statusCode), err, context)
    ELSE PatternClassified({}, err)

classifyError(err, context) ==
    IF StatusRule(context.statusCode) # "none"
    THEN StatusClassified(StatusRule(context.statusCode), err, context)
    ELSE PatternClassified({k \in 1..Len(ERROR_PATTERNS) : PatternMatches(k, err, context)},
                           err)


\* "No ClassifiedError": an absent error / classifiedError field.
NoError == [category |-> Undefined]
IsClassified(e) == e.category # Undefined

(***************************************************************************)
(* HTTP exchanges as the client sees them                                  *)
(***************************************************************************)
\* A response body.  kind: "empty" (no content), "text" (content that is not
\* JSON), "broken" (the body stream fails while it is read), or the kind of the
\* JSON value it holds; detail/error/message are the fields of a JSON object
\* (Undefined when the object lacks them); items is the length of a JSON array.
Body(kind) ==
    [kind |-> kind, detail |-> Undefined, error |-> Undefined, message |-> Undefined,
     items |-> 0]
ObjectBody(detail, error, message) ==
    [kind |-> "object", detail |-> detail, error |-> error, message |-> message,
     items |-> 0]
ArrayBody(n) ==
    [kind |-> "array", detail |-> Undefined, error |-> Undefined, message |-> Undefined,
     items |-> n]

\* What fetch() settles with: a response, or a rejection with an Error.
FetchResponse(status, statusText, body) ==
    [kind |-> "response", status |-> status, statusText |-> statusText, body |-> body,
     name |-> Undefined, message |-> Undefined]
FetchReject(name, message) ==
    [kind |-> "reject", status |-> 0, statusText |-> Undefined, body |-> Body("empty"),
     name |-> name, message |-> message]

\* Response.ok
ResponseOk(response) == response.status >= 200 /\ response.status <= 299

\* A settled promise.
Resolved(v) == [settled |-> "resolved", value |-> v]
Rejected(e) == [settled |-> "rejected", error |-> e]

\* Object.assign(new Error(message), { classifiedError })
ErrorWith(message, classified) ==
    [name |-> "Error", message |-> message, classifiedError |-> classified]
\* Object.assign(new Error(classified.message), { classifiedError: classified })
Classified(classified) == ErrorWith(classified.message, classified)
\* A plain Error, which has no classifiedError property.
PlainError(name, message) ==
    [name |-> name, message |-> message, classifiedError |-> NoError]

\* response.json(): the parsed body, or the error the read or the parse throws.
ResponseJson(response) ==
    CASE response.body.kind = "broken" ->
            Rejected(PlainError("TypeError", "Failed to fetch"))
      [] response.body.kind \in {"empty", "text"} ->
            Rejected(PlainError("SyntaxError", "Unexpected end of JSON input"))
      [] OTHER -> Resolved(response.body)

\* a || b for strings: Undefined and "" are falsy.
OrElse(a, b) == IF a = Undefined \/ a = "" THEN b ELSE a

\* Mutant of ErrorMessage: the fields are tried in the order message, error,
\* detail.
ErrorMessageLastField(body, fallback) ==
    IF body.kind = "object"
    THEN OrElse(body.message, OrElse(body.error, OrElse(body.detail, fallback)))
    ELSE fallback

\* errorBody.detail || errorBody.error || errorBody.message || fallback, where
\* a body that is no JSON object leaves the fallback.
ErrorMessage(body, fallback) ==
    IF body.kind = "object"
    THEN OrElse(body.detail, OrElse(body.error, OrElse(body.message, fallback)))
    ELSE fallback

createErrorFromResponse(response, context) ==
    classifyError(
        NewError(ErrorMessage(response.body,
                              "HTTP " \o StatusText(response.status) \o ": "
                                  \o response.statusText)),
        [context EXCEPT !.statusCode = response.status])


(***************************************************************************)
(* Provisioning API client (provisioningApi)                               *)
(***************************************************************************)
HexDigits == "0123456789ABCDEF"

IsHexChar(c) == \E k \in 1..16 : CharAt(HexDigits, k) = UpperChar(c)
HexValue(c) == (CHOOSE k \in 1..16 : CharAt(HexDigits, k) = UpperChar(c)) - 1

\* s.replace(/:/g, '')
RECURSIVE RemoveColons(_)
RemoveColons(s) ==
    IF s = "" THEN ""
    ELSE (IF CharAt(s, 1) = ":" THEN "" ELSE CharAt(s, 1))
         \o RemoveColons(SubSeq(s, 2, Len(s)))

\* parseInt(s, 16) reads the longest prefix of hex digits of s and is NaN when
\* there is none.  A 48-bit value does not fit the checker's integers, so the
\* number is kept as that text and only its remainders are computed.
IsNaN(s) == s = "" \/ ~IsHexChar(CharAt(s, 1))

RECURSIVE HexModFrom(_, _, _, _)
HexModFrom(s, i, d, acc) ==
    IF i > Len(s) \/ ~IsHexChar(CharAt(s, i)) THEN acc
    ELSE HexModFrom(s, i + 1, d, (acc * 16 + HexValue(CharAt(s, i))) % d)

\* parseInt(s, 16) % d === 0 (false for NaN)
Divisible(s, d) == ~IsNaN(s) /\ HexModFrom(s, 1, d, 0) = 0

\* encodeURIComponent on the characters of an address: ':' becomes %3A.
RECURSIVE EncodeURIComponent(_)
EncodeURIComponent(s) ==
    IF s = "" THEN ""
    ELSE (IF CharAt(s, 1) = ":" THEN "%3A" ELSE CharAt(s, 1))
         \o EncodeURIComponent(SubSeq(s, 2, Len(s)))

(***************************************************************************)
(* MAC address utilities (macUtils)                                        *)
(***************************************************************************)
\* Mutant of KeepHex: lowercase hex letters are dropped as well.
RECURSIVE KeepUpperHex(_)
KeepUpperHex(s) ==
    IF s = "" THEN ""
    ELSE (IF \E k \in 1..16 : CharAt(HexDigits, k) = CharAt(s, 1) THEN CharAt(s, 1) ELSE "")
         \o KeepUpperHex(SubSeq(s, 2, Len(s)))

\* input.replace(/[^0-9A-Fa-f]/g, '')
RECURSIVE KeepHex(_)
KeepHex(s) ==
    IF s = "" THEN ""
    ELSE (IF IsHexChar(CharAt(s, 1)) THEN CharAt(s, 1) ELSE "")
         \o KeepHex(SubSeq(s, 2, Len(s)))

\* Mutant of JoinPairs: the earlier normalizeMac of macUtils.ts, which inserts
\* the colons only when there are exactly twelve digits.
JoinPairsOfTwelve(s) ==
    IF Len(s) = 12
    THEN SubSeq(s, 1, 2) \o ":" \o SubSeq(s, 3, 4) \o ":" \o SubSeq(s, 5, 6) \o ":"
         \o SubSeq(s, 7, 8) \o ":" \o SubSeq(s, 9, 10) \o ":" \o SubSeq(s, 11, 12)
    ELSE s

\* cleaned.match(/.{1,2}/g).join(':')
RECURSIVE JoinPairs(_)
JoinPairs(s) ==
    IF Len(s) <= 2 THEN s
    ELSE SubSeq(s, 1, 2) \o ":" \o JoinPairs(SubSeq(s, 3, Len(s)))

\* Mutant of normalizeMac: the last character of the input is lost.
normalizeMacDropsLast(input) ==
    JoinPairs(ToUpperCase(KeepHex(SubSeq(input, 1, Len(input) - 1))))

normalizeMac(input) == JoinPairs(ToUpperCase(KeepHex(input)))

isCompleteMac(mac) == Len(RemoveColons(mac)) = 12

IsUpperHexChar(c) == \E k \in 1..16 : CharAt(HexDigits, k) = c

\* /^[0-9A-F]{2}(:[0-9A-F]{2}){5}$/
validateMacFormat(mac) ==
    /\ Len(mac) = 17
    /\ \A i \in 1..17 :
          IF i % 3 = 0 THEN CharAt(mac, i) = ":" ELSE IsUpperHexChar(CharAt(mac, i))

\* mac.replace(/:/g, '').slice(0, 6)
extractOui(mac) ==
    LET clean == RemoveColons(mac)
    IN  SubSeq(clean, 1, IF Len(clean) < 6 THEN Len(clean) ELSE 6)

\* A BigInt below 2^48 as a pair of 24-bit halves (high, low).
Half == 16777216

RECURSIVE HexToNat(_, _, _)
HexToNat(s, i, acc) ==
    IF i > Len(s) THEN acc ELSE HexToNat(s, i + 1, acc * 16 + HexValue(CharAt(s, i)))

\* BigInt('0x' + clean).  Digits beyond the last twelve make the number
\* exceed 0xFFFFFFFFFFFF unless they are all zero; that is all the code asks
\* of such a number, so they add Half to the high half.
BigIntOfHex(clean) ==
    LET padded == SubSeq("000000000000", 1, 12 - Len(clean)) \o clean
        low12 == SubSeq(padded, Len(padded) - 11, Len(padded))
        extra == SubSeq(padded, 1, Len(padded) - 12)
    IN  [hi |-> HexToNat(SubSeq(low12, 1, 6), 1, 0)
                + (IF \E i \in 1..Len(extra) : CharAt(extra, i) # "0" THEN Half ELSE 0),
         lo |-> HexToNat(SubSeq(low12, 7, 12), 1, 0)]

\* BigInt('0x' + clean) throws a SyntaxError unless clean is hex digits only.
IsHexText(clean) ==
    /\ clean # ""
    /\ \A i \in 1..Len(clean) : IsHexChar(CharAt(clean, i))

\* Mutant of BigIntAdd: the carry out of the low half is dropped.
BigIntAddNoCarry(n, i) == [hi |-> n.hi, lo |-> (n.lo + i) % Half]

\* Mutant of ExceedsMacRange: sums just above 0xFFFFFFFFFFFF pass.
ExceedsMacRangeLate(n) == n.hi > Half

\* n + BigInt(i); hi reaches Half exactly when the sum exceeds 0xFFFFFFFFFFFF.
BigIntAdd(n, i) ==
    [hi |-> n.hi + ((n.lo + i) \div Half), lo |-> (n.lo + i) % Half]
\* newNumber > BigInt('0xFFFFFFFFFFFF')
ExceedsMacRange(n) == n.hi >= Half

\* value.toString(16).toUpperCase().padStart(width, '0')
RECURSIVE NatToHex(_, _)
NatToHex(value, width) ==
    IF width = 0 THEN ""
    ELSE NatToHex(value \div 16, width - 1) \o CharAt(HexDigits, (value % 16) + 1)

\* newNumber.toString(16).toUpperCase().padStart(12, '0').match(/.{2}/g).join(':')
FormatMac(n) == JoinPairs(NatToHex(n.hi, 6) \o NatToHex(n.lo, 6))

\* The number of addresses generateSequentialMacs produces.
SequenceCount == 4

OffsetText(i) == CHOOSE t \in {"0", "1", "2", "3", "4"} : t = CharAt(Digits, i + 1)

\* generateSequentialMacs(baseMac), with base for its parameter: [success, macs, error].
generateSequentialMacs(base) ==
    LET cleanMac == RemoveColons(base)
    IN  IF ~IsHexText(cleanMac)
        THEN [success |-> FALSE, macs |-> <<>>,
              error |-> "Failed to generate sequential MACs: Cannot convert to a BigInt"]
        ELSE
            LET baseNumber == BigIntOfHex(cleanMac)
                overflowing ==
                    {i \in 0..(SequenceCount - 1) : ExceedsMacRange(BigIntAdd(baseNumber, i))}
            IN  IF overflowing # {}
                THEN [success |-> FALSE, macs |-> <<>>,
                      error |-> "MAC overflow: Cannot generate MAC +"
                                \o OffsetText(CHOOSE i \in overflowing :
                                                  \A j \in overflowing : i <= j)
                                \o " (exceeds 48-bit limit)"]
                ELSE [success |-> TRUE,
                      macs |-> [k \in 1..SequenceCount |->
                                   FormatMac(BigIntAdd(baseNumber, k - 1))],
                      error |-> Undefined]


\* ApiConfig as main.tsx leaves it: stub mode on or off.
ApiConfig(baseUrl, enableStubMode) ==
    [baseUrl |-> baseUrl, enableStubMode |-> enableStubMode, stubDelay |-> 1500,
     timeout |-> 30000]

\* The record the stub invents for an address that "exists".
StubRecord(mac) ==
    [mac |-> mac, account |-> "ViaviMeter", configfile |-> "existing-config",
     isp |-> "CableOne"]

\* A search result as the caller sees it: the parsed JSON value.
\* first is the first record of the list when the model knows it (Undefined
\* otherwise: the records of a backend body are not told apart).
SearchValue(kind, items, first) == [kind |-> kind, items |-> items, first |-> first]

\* Mutant of stubSearchByMac: every address divisible by 7 fails, those
\* divisible by 21 included.
stubSearchByMacNoException(mac) ==
    IF Divisible(RemoveColons(mac), 7)
    THEN Rejected(PlainError("Error", "Simulated server error (5xx)"))
    ELSE IF Divisible(RemoveColons(mac), 3)
    THEN Resolved(SearchValue("array", 1, StubRecord(mac)))
    ELSE Resolved(SearchValue("array", 0, Undefined))

stubSearchByMac(mac) ==
    LET macNumber == RemoveColons(mac)
        shouldExist == Divisible(macNumber, 3)
        shouldError == Divisible(macNumber, 7)
    IN  IF shouldError /\ ~Divisible(macNumber, 21)
        THEN Rejected(PlainError("Error", "Simulated server error (5xx)"))
        ELSE IF shouldExist THEN Resolved(SearchValue("array", 1, StubRecord(mac)))
        ELSE Resolved(SearchValue("array", 0, Undefined))

\* Mutant of searchByMacCatch: no AbortError branch, the abort error is
\* classified by its own message.
searchByMacCatchByMessage(error, context) ==
    IF IsClassified(error.classifiedError)
    THEN Rejected(error)
    ELSE Rejected(Classified(classifyError(error, context)))

\* The catch block of searchByMac.
searchByMacCatch(error, context) ==
    IF error.name = "AbortError"
    THEN Rejected(Classified(classifyError(NewError("Request timed out"), context)))
    ELSE IF IsClassified(error.classifiedError)
    THEN Rejected(error)
    ELSE Rejected(Classified(classifyError(error, context)))

\* searchByMac(mac) under configuration cfg, when fetch settles with fx.
searchByMac(cfg, mac, fx) ==
    IF cfg.enableStubMode THEN stubSearchByMac(mac)
    ELSE
        LET url == cfg.baseUrl \o "/searchbymac/" \o EncodeURIComponent(mac)
            context == Context("search", url)
        IN  IF fx.kind = "reject"
            THEN searchByMacCatch(PlainError(fx.name, fx.message), context)
            ELSE IF ~ResponseOk(fx)
            THEN searchByMacCatch(Classified(createErrorFromResponse(fx, context)), context)
            ELSE IF ResponseJson(fx).settled = "rejected"
            THEN searchByMacCatch(ResponseJson(fx).error, context)
            ELSE Resolved(SearchValue(ResponseJson(fx).value.kind,
                                      ResponseJson(fx).value.items, Undefined))

\* A ProvisionResponse; error is NoError and detail Undefined when absent.
ProvisionResponse(success, error, detail) ==
    [success |-> success, error |-> error, detail |-> detail]

\* { success: false, error: classified, detail: classified.technicalDetail }
Failure(classified) == ProvisionResponse(FALSE, classified, classified.technicalDetail)

\* Mutant of stubAddHsd: the validation error is tried before the server
\* error.
stubAddHsdValidationFirst(request) ==
    IF Divisible(RemoveColons(request.mac), 5)
    THEN Resolved(ProvisionResponse(FALSE,
             classifyError(NewError("Validation failed: MAC already exists"),
                           Context("provision", Undefined)),
             "MAC address already exists with different configuration"))
    ELSE IF Divisible(RemoveColons(request.mac), 11)
    THEN Resolved(ProvisionResponse(FALSE,
             classifyError(NewError("Server error: 500"), Context("provision", Undefined)),
             "Simulated internal server error"))
    ELSE Resolved(ProvisionResponse(TRUE, NoError, Undefined))

stubAddHsd(request) ==
    LET macNumber == RemoveColons(request.mac)
        shouldError400 == Divisible(macNumber, 5)
        shouldError500 == Divisible(macNumber, 11)
    IN  IF shouldError500
        THEN Resolved(ProvisionResponse(FALSE,
                 classifyError(NewError("Server error: 500"), Context("provision", Undefined)),
                 "Simulated internal server error"))
        ELSE IF shouldError400
        THEN Resolved(ProvisionResponse(FALSE,
                 classifyError(NewError("Validation failed: MAC already exists"),
                               Context("provision", Undefined)),
                 "MAC address already exists with different configuration"))
        ELSE Resolved(ProvisionResponse(TRUE, NoError, Undefined))

\* Mutant of addHsdCatch: the failure is classified and thrown, as searchByMac does.
addHsdCatchRethrows(error, context) ==
    Rejected(Classified(classifyError(error, context)))

\* The catch block of addHsd.
addHsdCatch(error, context) ==
    IF error.name = "AbortError"
    THEN Resolved(Failure(classifyError(NewError("Request timed out"), context)))
    ELSE Resolved(Failure(classifyError(error, context)))

\* Mutant of addHsdResponse: a 2xx body counts as success when it is
\* truthy (result instead of result === true).
addHsdResponseTruthy(response, context) ==
    IF ResponseOk(response)
    THEN LET result == ResponseJson(response)
         IN  IF result.settled = "rejected"
             THEN addHsdCatch(result.error, context)
             ELSE Resolved(ProvisionResponse(
                      result.value.kind \notin {"false", "null"}, NoError, Undefined))
    ELSE Resolved(Failure(createErrorFromResponse(response, context)))

\* The response handling of addHsd, once fetch has answered.
addHsdResponse(response, context) ==
    IF ResponseOk(response)
    THEN LET result == ResponseJson(response)
         IN  IF result.settled = "rejected"
             THEN addHsdCatch(result.error, context)
             ELSE Resolved(ProvisionResponse(result.value.kind = "true", NoError, Undefined))
    ELSE Resolved(Failure(createErrorFromResponse(response, context)))

\* addHsd(request) under configuration cfg, when fetch settles with fx.
addHsd(cfg, request, fx) ==
    IF cfg.enableStubMode THEN stubAddHsd(request)
    ELSE
        LET url == cfg.baseUrl \o "/addhsd"
            context == Context("provision", url)
        IN  IF fx.kind = "reject"
            THEN addHsdCatch(PlainError(fx.name, fx.message), context)
            ELSE addHsdResponse(fx, context)


\* The configurations main.tsx can set: stub mode on or off.
ApiConfigs == {ApiConfig("/api/ldap", TRUE), ApiConfig("/api/ldap", FALSE)}

(***************************************************************************)
(* State                                                                   *)
(***************************************************************************)
VARIABLES
    apiCall,     \* the API call last made: operation, configuration, argument, backend answer
    apiResult,   \* what that call settled with
    config,      \* provisioningApi's configuration, set once at startup (main.tsx)
    \* ProvisioningPage state (useState)
    currentStep, baseMac, macs, isLoading, statusError, provisionError,
    showConfirmDialog, provisionDefaults,
    validator,   \* MacValidator state [mac, error, isValid]; mounted while currentStep = "input"
    runs,        \* the async handlers suspended at an await, oldest first
    \* for stating the claims
    event,              \* what the last step did: request issued, answer received,
                        \* toast shown, how a handleValidate ended
    overwriteConfirmed, \* the addresses whose overwrite the user has confirmed
    clicks,             \* how often the bounded user actions were taken
    backend             \* the records the backend holds, the requests failed so far

apiVars == <<apiCall, apiResult>>
pageVars ==
    <<config, currentStep, baseMac, macs, isLoading, statusError, provisionError,
      showConfirmDialog, provisionDefaults, validator, runs, event, overwriteConfirmed,
      clicks, backend>>

(***************************************************************************)
(* The provisioning page: what both variants share                         *)
(***************************************************************************)
\* Bounds on the user actions of one behaviour.
MaxValidations == 2
MaxResets == 1
\* Bound on the async handlers suspended at the same time.
MaxInFlight == 2

\* /config/approved-ouis.json
ApprovedOuis == {"A1B2C3", "FFFFFF"}

\* What the technician may type into the MAC field.
TypedInputs ==
    {"a1-b2-c3-00-00-00", "A1B2C3000000", "FFFFFFFFFFFE", "A1B2C3", "001122334455"}

\* normalizeMac on the typed inputs.
NormalizedInput == [t \in TypedInputs |-> normalizeMac(t)]

\* handleValidate's checks on a field content, before the OUI lookup.
FieldCheck(mac) ==
    IF ~isCompleteMac(mac) THEN "incomplete"
    ELSE IF ~validateMacFormat(mac) THEN "malformed"
    ELSE "ok"

\* Mutant of checkOui: an allow-list that cannot be loaded approves the address.
checkOuiFailOpen(mac, loaded) == IF loaded THEN extractOui(mac) \in ApprovedOuis ELSE TRUE

\* checkOui(mac) once the fetch of the allow-list has settled: loaded says
\* whether the list could be fetched and parsed.
checkOui(mac, loaded) == IF loaded THEN extractOui(mac) \in ApprovedOuis ELSE FALSE

FieldContents == {""} \cup {NormalizedInput[t] : t \in TypedInputs}
FieldCheckOf == [m \in FieldContents |-> FieldCheck(m)]
OuiCheckOf == [m \in FieldContents, loaded \in BOOLEAN |-> checkOui(m, loaded)]
GeneratedFor == [m \in FieldContents |-> generateSequentialMacs(m)]

\* Every address the page can come to track.
PageMacs ==
    FieldContents \cup
    UNION {{GeneratedFor[m].macs[k] : k \in DOMAIN GeneratedFor[m].macs} : m \in FieldContents}

\* Backend answers the page is run against (real mode).
PageSearchFetch ==
    {FetchResponse(200, "OK", ArrayBody(1)), FetchResponse(200, "OK", ArrayBody(0)),
     FetchResponse(500, "Internal Server Error", Body("text")),
     FetchResponse(403, "Forbidden", Body("text"))}
PageAddFetch ==
    {FetchResponse(200, "OK", Body("true")), FetchResponse(200, "OK", Body("false")),
     FetchResponse(500, "Internal Server Error", Body("text")),
     FetchResponse(400, "Bad Request",
                   ObjectBody("MAC already exists", Undefined, Undefined))}
StubFetch == FetchReject(Undefined, Undefined)

\* The records the backend may hold, and how many requests (API calls and
\* fetches of the /config files) the environment may fail in one behaviour.
BackendChoices == {{}, {"A1:B2:C3:00:00:01"}}
MaxFailures == 1

FailingSearchFetch ==
    {FetchResponse(500, "Internal Server Error", Body("text")),
     FetchResponse(403, "Forbidden", Body("text"))}
FailingAddFetch ==
    {FetchResponse(200, "OK", Body("false")),
     FetchResponse(500, "Internal Server Error", Body("text")),
     FetchResponse(400, "Bad Request",
                   ObjectBody("MAC already exists", Undefined, Undefined))}

MayFail == backend.failures < MaxFailures

\* What fetch can answer to the searchByMac / addHsd for mac; stub mode makes
\* no request.
SearchAnswers(mac) ==
    IF config.enableStubMode THEN {StubFetch}
    ELSE {FetchResponse(200, "OK", ArrayBody(IF mac \in backend.existing THEN 1 ELSE 0))}
         \cup (IF MayFail THEN FailingSearchFetch ELSE {})
AddHsdAnswers ==
    IF config.enableStubMode THEN {StubFetch}
    ELSE {FetchResponse(200, "OK", Body("true"))}
         \cup (IF MayFail THEN FailingAddFetch ELSE {})
\* Whether a fetch of a /config file succeeds.
ConfigAnswers == {TRUE} \cup (IF MayFail THEN {FALSE} ELSE {})

\* The environment has failed one more request, or not.
Answered(failed) ==
    backend' = IF failed THEN [backend EXCEPT !.failures = @ + 1] ELSE backend

\* What searchByMac and addHsd settle with, for every address and answer the
\* page can meet.  (The outcome of addHsd does not depend on the account,
\* configfile and isp of the request.)
SearchOutcome ==
    [cfg \in ApiConfigs, m \in PageMacs, fx \in PageSearchFetch \cup {StubFetch} |->
        searchByMac(cfg, m, fx)]
AddHsdOutcome ==
    [cfg \in ApiConfigs, m \in PageMacs, fx \in PageAddFetch \cup {StubFetch} |->
        addHsd(cfg, [mac |-> m, account |-> "acct", configfile |-> "cfg0", isp |-> "isp"],
               fx)]

NoDefaults == [loaded |-> FALSE]
InitialValidator == [mac |-> "", error |-> "", isValid |-> FALSE]
NoToast == [title |-> "", description |-> "", variant |-> "default"]
Toast(title, description, variant) ==
    [title |-> title, description |-> description, variant |-> variant]
NoRequest ==
    [op |-> "none", mac |-> "", index |-> 0, unconfirmedOverwrite |-> FALSE,
     account |-> Undefined, configfile |-> Undefined, isp |-> Undefined]
NoResponse == [op |-> "none", mac |-> "", index |-> 0, answer |-> "none"]
NoValidation == [outcome |-> "none", mac |-> "", ouiLoaded |-> FALSE]
\* A step that issued no request, received no answer, showed no toast and
\* ended no handleValidate; run is the position in runs of the handler that
\* took the step (0 for a handler that started in it), entered says that
\* handleMacValidated moved the page to step 'status'.
NoEvent ==
    [run |-> 0, request |-> NoRequest, response |-> NoResponse, toast |-> NoToast,
     validation |-> NoValidation, entered |-> FALSE]

\* The error field of a MacStatus: absent, a text, or a ClassifiedError object.
NoErrorField == [text |-> Undefined, classified |-> NoError]
ErrorText(text) == [text |-> text, classified |-> NoError]
ErrorObject(classified) == [text |-> Undefined, classified |-> classified]

\* Mutant of MacStatus: every address gets the first config file.
MacStatusFirstConfig(mac, index, configfile) ==
    [mac |-> mac, index |-> index, configfile |-> "cfg0", status |-> "checking",
     hasCurrentData |-> FALSE, provisionState |-> "pending",
     error |-> [text |-> Undefined, classified |-> [category |-> Undefined]]]

\* A MacStatus record as handleMacValidated creates it.
MacStatus(mac, index, configfile) ==
    [mac |-> mac, index |-> index, configfile |-> configfile, status |-> "checking",
     hasCurrentData |-> FALSE, provisionState |-> "pending", error |-> NoErrorField]

\* A suspended async handler.  kind "validate" is handleValidate followed by
\* handleMacValidated (pc "oui", "defaults", "search"); kind "provision" is
\* startProvisioning (pc "defaults", "addHsd").  The other fields are the
\* handler's locals and the state its closure captured (defaults, and macs as
\* captured).
Run(kind, pc, mac, defaults, captured) ==
    [kind |-> kind, pc |-> pc, mac |-> mac, defaults |-> defaults,
     mounted |-> TRUE, updatedMacs |-> captured, total |-> Len(captured), i |-> 0,
     hasServerError |-> FALSE, successCount |-> 0]

RemoveAt(seq, k) == SubSeq(seq, 1, k - 1) \o SubSeq(seq, k + 1, Len(seq))

\* The MacValidator unmounts: the handlers it still has in flight can no longer
\* change what a later MacValidator shows.
Unmount(rs) == [k \in DOMAIN rs |-> [rs[k] EXCEPT !.mounted = FALSE]]

PageInit(noStatusError) ==
    /\ config \in ApiConfigs
    /\ currentStep = "input"
    /\ baseMac = ""
    /\ macs = <<>>
    /\ isLoading = FALSE
    /\ statusError = noStatusError
    /\ provisionError = NoError
    /\ showConfirmDialog = FALSE
    /\ provisionDefaults = NoDefaults
    /\ validator = InitialValidator
    /\ runs = <<>>
    /\ event = NoEvent
    /\ overwriteConfirmed = {}
    /\ clicks = [validate |-> 0, reset |-> 0]
    /\ backend \in [existing : BackendChoices, failures : {0}]

\* The page state as one record, for the handlers below to transform; the
\* event is that of the step being taken.
Page ==
    [currentStep |-> currentStep, baseMac |-> baseMac, macs |-> macs,
     isLoading |-> isLoading, statusError |-> statusError,
     provisionError |-> provisionError, showConfirmDialog |-> showConfirmDialog,
     provisionDefaults |-> provisionDefaults, validator |-> validator, runs |-> runs,
     event |-> NoEvent, overwriteConfirmed |-> overwriteConfirmed]

\* The page state is p after this step.
BecomesValue(p) ==
    /\ currentStep' = p.currentStep
    /\ baseMac' = p.baseMac
    /\ macs' = p.macs
    /\ isLoading' = p.isLoading
    /\ statusError' = p.statusError
    /\ provisionError' = p.provisionError
    /\ showConfirmDialog' = p.showConfirmDialog
    /\ provisionDefaults' = p.provisionDefaults
    /\ validator' = p.validator
    /\ runs' = p.runs
    /\ event' = p.event
    /\ overwriteConfirmed' = p.overwriteConfirmed
    /\ UNCHANGED <<apiVars, config>>

\* The page state after a handler ran up to its next await (or its end); the
\* handler's result is computed once.
Becomes(result) == \E p \in {result} : BecomesValue(p)

\* setCurrentStep(step): the MacValidator is rendered only in step 'input', so
\* leaving 'input' unmounts it and coming back mounts a fresh one.
SetCurrentStep(p, step) ==
    IF step = p.currentStep THEN p
    ELSE IF p.currentStep = "input" \/ step = "input"
    THEN [p EXCEPT !.currentStep = step, !.validator = InitialValidator,
                   !.runs = Unmount(@)]
    ELSE [p EXCEPT !.currentStep = step]

FoundMacs(ms) == {ms[k].mac : k \in {j \in DOMAIN ms : ms[j].status = "found"}}

\* setMacs(ms)
SetMacs(p, ms) == [p EXCEPT !.macs = ms]

\* The handler run[k] issues provisioningApi.searchByMac(mac).
IssueSearch(p, k, mac, index) ==
    [p EXCEPT !.event.request = [op |-> "searchByMac", mac |-> mac, index |-> index,
                                 unconfirmedOverwrite |-> FALSE,
                                 account |-> Undefined, configfile |-> Undefined,
                                 isp |-> Undefined]]

\* The handler run[k] issues provisioningApi.addHsd({mac, account, configfile,
\* isp}): the config file of the address as the handler holds it, account and
\* isp of the handler's defaults.  The request is an unconfirmed overwrite when
\* the page shows an address as found for which the user has never confirmed
\* the overwrite.
IssueAddHsd(p, k, mac, index) ==
    [p EXCEPT !.event.request = [op |-> "addHsd", mac |-> mac, index |-> index,
                                 unconfirmedOverwrite |->
                                     ~(FoundMacs(p.macs) \subseteq p.overwriteConfirmed),
                                 account |-> p.runs[k].defaults.account,
                                 configfile |->
                                     p.runs[k].updatedMacs[index + 1].configfile,
                                 isp |-> p.runs[k].defaults.isp]]

\* The user can start one more async handler.
CanStart == Len(runs) < MaxInFlight

hasExistingMacs == \E k \in DOMAIN macs : macs[k].status = "found"

\* handleInputChange(value)
TypeMac ==
    \E t \in TypedInputs :
        /\ currentStep = "input"
        /\ ~showConfirmDialog
        /\ Becomes([Page EXCEPT !.validator =
                        [mac |-> NormalizedInput[t], error |-> "", isValid |-> FALSE]])
        /\ UNCHANGED <<clicks, backend>>

\* handleValidate up to its first await.  The Validate button is enabled while
\* the field is not empty and isLoading is false.
ClickValidate ==
    /\ currentStep = "input"
    /\ ~showConfirmDialog
    /\ validator.mac # ""
    /\ ~isLoading
    /\ clicks.validate < MaxValidations
    /\ CanStart
    /\ clicks' = [clicks EXCEPT !.validate = @ + 1]
    /\ UNCHANGED backend
    /\ Becomes(
        IF FieldCheckOf[validator.mac] = "incomplete"
        THEN [Page EXCEPT
                !.validator.error = "Please enter a complete MAC address (12 hex digits)",
                !.event.validation = [outcome |-> "incomplete", mac |-> validator.mac,
                                      ouiLoaded |-> FALSE]]
        ELSE IF FieldCheckOf[validator.mac] = "malformed"
        THEN [Page EXCEPT
                !.validator.error = "Invalid MAC address format",
                !.event.validation = [outcome |-> "malformed", mac |-> validator.mac,
                                      ouiLoaded |-> FALSE]]
        ELSE [Page EXCEPT
                !.runs = Append(@, Run("validate", "oui", validator.mac,
                                       provisionDefaults, <<>>))])

\* The Cancel button of the confirmation dialog.
ClickCancel ==
    /\ showConfirmDialog
    /\ Becomes([Page EXCEPT !.showConfirmDialog = FALSE])
    /\ UNCHANGED <<clicks, backend>>

\* handleValidate after checkOui settled, for the handler runs[k]; loaded says
\* whether the allow-list could be fetched and parsed.  On approval it calls
\* onValidated, which handleMacValidated (a variant's operator) continues.
ValidateSettles(p, k, loaded, handleMacValidated(_, _)) ==
    LET r == p.runs[k]
        ouiApproved == OuiCheckOf[r.mac, loaded]
    IN  IF ~ouiApproved
        THEN [p EXCEPT
                !.validator.error =
                    IF r.mounted THEN "This is not a known Viavi meter." ELSE @,
                !.event.run = k,
                !.event.validation = [outcome |-> "oui-rejected", mac |-> r.mac,
                                      ouiLoaded |-> loaded],
                !.runs = RemoveAt(@, k)]
        ELSE handleMacValidated(
                [p EXCEPT
                    !.validator.error = IF r.mounted THEN "" ELSE @,
                    !.validator.isValid = IF r.mounted THEN TRUE ELSE @,
                    !.event.run = k,
                    !.event.validation = [outcome |-> "accepted", mac |-> r.mac,
                                          ouiLoaded |-> loaded]],
                k)

(***************************************************************************)
(* The page for four sequential addresses (ProvisioningPage, sequential    *)
(* variant)                                                                *)
(***************************************************************************)
\* /config/provision-defaults.json
SeqDefaults ==
    [loaded |-> TRUE, account |-> "acct", isp |-> "isp",
     configfiles |-> <<"cfg0", "cfg1", "cfg2", "cfg3">>]

NumText(n) == CharAt(Digits, n + 1)

\* What a searchByMac call gave its caller: it threw, or it returned records
\* or an empty list.
SearchAnswer(res) ==
    IF res.settled = "rejected" THEN "rejected"
    ELSE IF res.value.items > 0 THEN "records"
    ELSE "empty"

\* What an addHsd call gave its caller.
AddHsdAnswer(res) ==
    IF res.settled = "rejected" THEN "rejected"
    ELSE IF res.value.success THEN "success"
    ELSE "failure"

\* The lookup status handleMacValidated records for a settled searchByMac.
SeqLookupStatus(res) ==
    IF res.settled = "rejected" THEN "unknown"
    ELSE IF res.value.items > 0 THEN "found"
    ELSE "not-found"

\* handleMacValidated from "Generate sequential MACs" to the first searchByMac.
SeqCheckStatus(p, k, defaults) ==
    LET r == p.runs[k]
        result == GeneratedFor[r.mac]
    IN  IF ~result.success
        THEN [p EXCEPT !.event.toast =
                           Toast("MAC Generation Error", result.error, "destructive"),
                       !.isLoading = FALSE,
                       !.runs = RemoveAt(@, k)]
        ELSE LET initialMacs ==
                     [j \in 1..Len(result.macs) |->
                         MacStatus(result.macs[j], j - 1, defaults.configfiles[j])]
                 q == SetCurrentStep(SetMacs(p, initialMacs), "status")
             IN  IssueSearch(
                     [q EXCEPT !.event.entered = TRUE,
                               !.runs[k].pc = "search",
                               !.runs[k].updatedMacs = initialMacs,
                               !.runs[k].i = 1,
                               !.runs[k].hasServerError = FALSE],
                     k, result.macs[1], 0)

\* handleMacValidated(mac) up to its first await, called by the handler runs[k].
SeqHandleMacValidated(p, k) ==
    LET r == p.runs[k]
        q == [p EXCEPT !.baseMac = r.mac, !.isLoading = TRUE, !.statusError = ""]
    IN  IF r.defaults.loaded
        THEN SeqCheckStatus(q, k, r.defaults)
        ELSE [q EXCEPT !.runs[k].pc = "defaults"]

\* The startProvisioning loop from the top of iteration runs[k].i to the next
\* await, or to the end of the function after the last iteration.
SeqProvisionLoop(p, k) ==
    LET r == p.runs[k]
    IN  IF r.i > Len(r.updatedMacs)
        THEN [p EXCEPT
                !.event.toast =
                          Toast("Provisioning Complete",
                                "Provisioned " \o NumText(r.successCount) \o " of "
                                    \o NumText(r.total) \o " MACs successfully",
                                IF r.successCount = r.total THEN "default"
                                ELSE "destructive"),
                !.runs = RemoveAt(@, k)]
        ELSE LET updatedMacs ==
                     [r.updatedMacs EXCEPT ![r.i].provisionState = "provisioning"]
                 q == SetMacs([p EXCEPT !.runs[k].updatedMacs = updatedMacs,
                                        !.runs[k].pc = "addHsd"],
                              updatedMacs)
             IN  IssueAddHsd(q, k, updatedMacs[r.i].mac, r.i - 1)

\* startProvisioning up to its first await.
SeqStartProvisioning(p) ==
    LET q == SetCurrentStep([p EXCEPT !.showConfirmDialog = FALSE], "provisioning")
        k == Len(p.runs) + 1
    IN  IF p.provisionDefaults.loaded
        THEN SeqProvisionLoop(
                [q EXCEPT !.runs = Append(@,
                    [Run("provision", "addHsd", p.baseMac, p.provisionDefaults, p.macs)
                        EXCEPT !.i = 1])],
                k)
        ELSE [q EXCEPT !.runs = Append(@,
                    Run("provision", "defaults", p.baseMac, p.provisionDefaults, p.macs))]

\* checkOui settles for a pending handleValidate.
SeqOuiSettles ==
    \E k \in DOMAIN runs, loaded \in ConfigAnswers :
        /\ runs[k].pc = "oui"
        /\ Becomes(ValidateSettles(Page, k, loaded, SeqHandleMacValidated))
        /\ Answered(~loaded)
        /\ UNCHANGED clicks

\* Mutant of SeqDefaultsFailed: the early return forgets setIsLoading(false).
SeqDefaultsFailedStaysLoading(p, k) ==
    [p EXCEPT
        !.event.run = k,
        !.event.toast = Toast("Configuration Error",
                              "Failed to load provisioning configuration", "destructive"),
        !.runs = RemoveAt(@, k)]

\* The handler runs[k] after its loadProvisionDefaults failed: the toast, and
\* the return of the handler.
SeqDefaultsFailed(p, k) ==
    [p EXCEPT
        !.event.run = k,
        !.event.toast = Toast("Configuration Error",
                              "Failed to load provisioning configuration", "destructive"),
        !.isLoading = IF p.runs[k].kind = "validate" THEN FALSE ELSE @,
        !.runs = RemoveAt(@, k)]

\* The handler runs[k] after its loadProvisionDefaults returned the defaults.
SeqDefaultsLoaded(p, k) ==
    IF p.runs[k].kind = "validate"
    THEN SeqCheckStatus(
            [p EXCEPT !.event.run = k, !.provisionDefaults = SeqDefaults,
                      !.runs[k].defaults = SeqDefaults],
            k, SeqDefaults)
    ELSE SeqProvisionLoop(
            [p EXCEPT !.event.run = k, !.provisionDefaults = SeqDefaults,
                      !.runs[k].defaults = SeqDefaults, !.runs[k].i = 1],
            k)

\* loadProvisionDefaults settles, in handleMacValidated or in startProvisioning.
SeqDefaultsSettle ==
    \E k \in DOMAIN runs, ok \in ConfigAnswers :
        /\ runs[k].pc = "defaults"
        /\ Answered(~ok)
        /\ Becomes(IF ok THEN SeqDefaultsLoaded(Page, k) ELSE SeqDefaultsFailed(Page, k))
        /\ UNCHANGED clicks

\* The status loop of handleMacValidated after the searchByMac of the handler
\* runs[k] settled with searchResult: the try or the catch, the setMacs and the
\* next iteration up to its await, or the end of the handler.
SeqSearchSettled(p, k, searchResult) ==
    LET r == p.runs[k]
        status == SeqLookupStatus(searchResult)
        updatedMacs ==
            [r.updatedMacs EXCEPT ![r.i].status = status,
                                  ![r.i].hasCurrentData = (status = "found")]
        hasServerError == r.hasServerError \/ status = "unknown"
        q == SetMacs(
                [p EXCEPT
                    !.event.run = k,
                    !.event.response =
                        [op |-> "searchByMac", mac |-> r.updatedMacs[r.i].mac,
                         index |-> r.i - 1, answer |-> SearchAnswer(searchResult)],
                    !.runs[k].updatedMacs = updatedMacs,
                    !.runs[k].hasServerError = hasServerError,
                    !.runs[k].i = r.i + 1],
                updatedMacs)
    IN  IF r.i < Len(r.updatedMacs)
        THEN IssueSearch(q, k, updatedMacs[r.i + 1].mac, r.i)
        ELSE [q EXCEPT
                !.statusError =
                    IF hasServerError
                    THEN "Status check unavailable for some MACs; you can still proceed with provisioning."
                    ELSE @,
                !.isLoading = FALSE,
                !.runs = RemoveAt(@, k)]

\* A searchByMac of the status loop settles.
SeqSearchSettles ==
    \E k \in {j \in DOMAIN runs : runs[j].pc = "search"} :
        \E fx \in SearchAnswers(runs[k].updatedMacs[runs[k].i].mac) :
            /\ Answered(fx \in FailingSearchFetch)
            /\ Becomes(SeqSearchSettled(
                   Page, k, SearchOutcome[config, runs[k].updatedMacs[runs[k].i].mac, fx]))
            /\ UNCHANGED clicks

\* handleProvisionClick: the button is rendered in step 'status' once isLoading
\* is false.
SeqClickProvision ==
    /\ currentStep = "status"
    /\ ~isLoading
    /\ ~showConfirmDialog
    /\ CanStart
    /\ UNCHANGED <<clicks, backend>>
    /\ Becomes(IF hasExistingMacs THEN [Page EXCEPT !.showConfirmDialog = TRUE]
               ELSE SeqStartProvisioning(Page))

\* "Proceed with Provisioning" in the confirmation dialog.
SeqClickProceed ==
    /\ showConfirmDialog
    /\ CanStart
    /\ Becomes(SeqStartProvisioning(
                   [Page EXCEPT !.overwriteConfirmed = @ \cup FoundMacs(macs)]))
    /\ UNCHANGED clicks
    /\ UNCHANGED backend

\* Mutant of SeqRecordOutcome: successCount++ moved out of the success branch.
SeqRecordOutcomeCountsAll(r, settled) ==
    [r EXCEPT !.updatedMacs[r.i].provisionState =
                  IF settled.settled = "resolved" /\ settled.value.success
                  THEN "complete" ELSE "error",
              !.successCount = @ + 1,
              !.i = @ + 1]

\* The body of the startProvisioning loop after the await, on the locals of
\* the handler r: the outcome of address r.i is recorded and counted.
SeqRecordOutcome(r, settled) ==
    IF settled.settled = "rejected"
    THEN [r EXCEPT !.updatedMacs[r.i].provisionState = "error",
                   !.updatedMacs[r.i].error = ErrorText(settled.error.message),
                   !.i = @ + 1]
    ELSE IF settled.value.success
    THEN [r EXCEPT !.updatedMacs[r.i].provisionState = "complete",
                   !.successCount = @ + 1,
                   !.i = @ + 1]
    ELSE [r EXCEPT !.updatedMacs[r.i].provisionState = "error",
                   !.updatedMacs[r.i].error =
                       IF settled.value.detail \notin {Undefined, ""}
                       THEN ErrorText(settled.value.detail)
                       ELSE IF IsClassified(settled.value.error)
                       THEN ErrorObject(settled.value.error)
                       ELSE ErrorText("Unknown error"),
                   !.i = @ + 1]

\* The provisioning loop after the addHsd of the handler runs[k] settled: the
\* outcome is recorded and the loop goes on to the next address, or ends with
\* the summary toast.
SeqAddHsdSettled(p, k, settled) ==
    SeqProvisionLoop(
        SetMacs(
            [p EXCEPT
                !.event.run = k,
                !.event.response =
                    [op |-> "addHsd", mac |-> p.runs[k].updatedMacs[p.runs[k].i].mac,
                     index |-> p.runs[k].i - 1, answer |-> AddHsdAnswer(settled)],
                !.runs[k] = SeqRecordOutcome(@, settled)],
            SeqRecordOutcome(p.runs[k], settled).updatedMacs),
        k)

\* An addHsd of the provisioning loop settles.
SeqAddHsdSettles ==
    \E k \in {j \in DOMAIN runs : runs[j].pc = "addHsd"} :
        \E fx \in AddHsdAnswers :
            /\ Answered(fx \in FailingAddFetch)
            /\ Becomes(SeqAddHsdSettled(
                   Page, k, AddHsdOutcome[config, runs[k].updatedMacs[runs[k].i].mac, fx]))
            /\ UNCHANGED clicks

\* handleReset: "Start Over" is rendered outside step 'input'.
SeqClickReset ==
    /\ currentStep # "input"
    /\ ~showConfirmDialog
    /\ clicks.reset < MaxResets
    /\ clicks' = [clicks EXCEPT !.reset = @ + 1]
    /\ UNCHANGED backend
    /\ Becomes(
        [SetMacs(SetCurrentStep(Page, "input"), <<>>) EXCEPT
            !.baseMac = "", !.statusError = "", !.showConfirmDialog = FALSE])

NoApiCall == apiCall = [op |-> "none"] /\ apiResult = [op |-> "none"]

SeqInit == NoApiCall /\ PageInit("")

SeqNext ==
    \/ TypeMac
    \/ ClickValidate
    \/ SeqOuiSettles
    \/ SeqDefaultsSettle
    \/ SeqSearchSettles
    \/ SeqClickProvision
    \/ ClickCancel
    \/ SeqClickProceed
    \/ SeqAddHsdSettles
    \/ SeqClickReset

(***************************************************************************)
(* The page for one address (ProvisioningPage, single-address variant).    *)
(* Its state `mac` (a MacStatus or null) is the variable macs holding one  *)
(* record or none; statusError and provisionError hold a ClassifiedError   *)
(* or NoError.                                                             *)
(***************************************************************************)
\* /config/provision-defaults.json
SingleDefaults == [loaded |-> TRUE, account |-> "acct", isp |-> "isp", configfile |-> "cfg0"]

\* loadProvisionDefaults' catch, for a response that is not ok.
SingleConfigError ==
    classifyError(NewError("Failed to load config: 500"), Context("config", Undefined))

\* error.classifiedError || classifyError(error, { type })
CaughtError(error, type) ==
    IF IsClassified(error.classifiedError) THEN error.classifiedError
    ELSE classifyError(error, Context(type, Undefined))

\* result.error || classifyError(new Error(result.detail || 'Unknown error'))
FailureError(result) ==
    IF IsClassified(result.error) THEN result.error
    ELSE classifyError(NewError(OrElse(result.detail, "Unknown error")),
                       Context(Undefined, Undefined))

\* The error handleMacValidated shows for a settled searchByMac, and the one
\* startProvisioning shows for a settled addHsd (NoError when there is none).
StatusErrorFor(searchResult) ==
    IF searchResult.settled = "rejected" THEN CaughtError(searchResult.error, "search")
    ELSE NoError
ProvisionErrorFor(result) ==
    IF result.settled = "rejected" THEN CaughtError(result.error, "provision")
    ELSE IF result.value.success THEN NoError
    ELSE FailureError(result.value)

\* The page's view of what searchByMac and addHsd settle with: the outcome and
\* the error shown for it.
SingleSearchOutcome ==
    [cfg \in ApiConfigs, m \in PageMacs, fx \in PageSearchFetch \cup {StubFetch} |->
        [searchResult |-> SearchOutcome[cfg, m, fx],
         classifiedError |-> StatusErrorFor(SearchOutcome[cfg, m, fx])]]
SingleAddHsdOutcome ==
    [cfg \in ApiConfigs, m \in PageMacs, fx \in PageAddFetch \cup {StubFetch} |->
        [result |-> AddHsdOutcome[cfg, m, fx],
         error |-> ProvisionErrorFor(AddHsdOutcome[cfg, m, fx])]]

\* handleMacValidated from "Initialize MAC status" to the searchByMac.
SingleCheckStatus(p, k, defaults) ==
    LET r == p.runs[k]
        macStatus == MacStatus(r.mac, 0, defaults.configfile)
        q == SetCurrentStep(SetMacs(p, <<macStatus>>), "status")
    IN  IssueSearch(
            [q EXCEPT !.event.entered = TRUE,
                      !.runs[k].pc = "search",
                      !.runs[k].updatedMacs = <<macStatus>>,
                      !.runs[k].i = 1],
            k, r.mac, 0)

\* handleMacValidated(validatedMac) up to its first await, called by the
\* handler runs[k].
SingleHandleMacValidated(p, k) ==
    LET r == p.runs[k]
        q == [p EXCEPT !.isLoading = TRUE, !.statusError = NoError,
                       !.provisionError = NoError]
    IN  IF r.defaults.loaded
        THEN SingleCheckStatus(q, k, r.defaults)
        ELSE [q EXCEPT !.runs[k].pc = "defaults"]

\* startProvisioning from "Update to provisioning state" to the addHsd; the
\* handler works on the mac its closure captured.
SingleProvision(p, k) ==
    LET captured == p.runs[k].updatedMacs[1]
        q == SetMacs([p EXCEPT !.runs[k].pc = "addHsd", !.runs[k].i = 1],
                     <<[captured EXCEPT !.provisionState = "provisioning"]>>)
    IN  IssueAddHsd(q, k, captured.mac, 0)

\* startProvisioning up to its first await.
SingleStartProvisioning(p) ==
    LET q == [SetCurrentStep([p EXCEPT !.showConfirmDialog = FALSE], "provisioning")
                 EXCEPT !.provisionError = NoError]
        k == Len(p.runs) + 1
    IN  IF p.macs = <<>> THEN q
        ELSE IF p.provisionDefaults.loaded
        THEN SingleProvision(
                [q EXCEPT !.runs = Append(@,
                    Run("provision", "addHsd", p.macs[1].mac, p.provisionDefaults, p.macs))],
                k)
        ELSE [q EXCEPT !.runs = Append(@,
                    Run("provision", "defaults", p.macs[1].mac, p.provisionDefaults,
                        p.macs))]

\* checkOui settles for a pending handleValidate.
SingleOuiSettles ==
    \E k \in DOMAIN runs, loaded \in ConfigAnswers :
        /\ runs[k].pc = "oui"
        /\ Becomes(ValidateSettles(Page, k, loaded, SingleHandleMacValidated))
        /\ Answered(~loaded)
        /\ UNCHANGED clicks

\* The handler runs[k] after its loadProvisionDefaults failed: the toast, and
\* the return of the handler.
SingleDefaultsFailed(p, k, classifiedError) ==
    [p EXCEPT
        !.event.run = k,
        !.event.toast = Toast(classifiedError.title, classifiedError.message, "destructive"),
        !.isLoading = IF p.runs[k].kind = "validate" THEN FALSE ELSE @,
        !.runs = RemoveAt(@, k)]

\* The handler runs[k] after its loadProvisionDefaults returned the defaults.
SingleDefaultsLoaded(p, k) ==
    IF p.runs[k].kind = "validate"
    THEN SingleCheckStatus(
            [p EXCEPT !.event.run = k, !.provisionDefaults = SingleDefaults,
                      !.runs[k].defaults = SingleDefaults],
            k, SingleDefaults)
    ELSE SingleProvision(
            [p EXCEPT !.event.run = k, !.provisionDefaults = SingleDefaults,
                      !.runs[k].defaults = SingleDefaults],
            k)

\* loadProvisionDefaults settles, in handleMacValidated or in startProvisioning.
SingleDefaultsSettle ==
    \E k \in DOMAIN runs, ok \in ConfigAnswers :
        /\ runs[k].pc = "defaults"
        /\ Answered(~ok)
        /\ Becomes(IF ok THEN SingleDefaultsLoaded(Page, k)
                   ELSE SingleDefaultsFailed(Page, k, SingleConfigError))
        /\ UNCHANGED clicks

\* Mutant of SingleSearchSettled: a failed lookup leaves isLoading set, which
\* keeps the provision action away.
SingleSearchSettledBlocks(p, k, searchResult, classifiedError) ==
    LET status == SeqLookupStatus(searchResult)
        q == SetMacs(
                [p EXCEPT
                    !.event.run = k,
                    !.event.response =
                        [op |-> "searchByMac", mac |-> p.runs[k].mac, index |-> 0,
                         answer |-> SearchAnswer(searchResult)],
                    !.isLoading = (status = "unknown"),
                    !.runs = RemoveAt(@, k)],
                <<[p.runs[k].updatedMacs[1] EXCEPT
                      !.status = status, !.hasCurrentData = (status = "found")]>>)
    IN  IF status = "unknown" THEN [q EXCEPT !.statusError = classifiedError] ELSE q

\* handleMacValidated after its searchByMac settled: the try or the catch, then
\* setIsLoading(false).
SingleSearchSettled(p, k, searchResult, classifiedError) ==
    LET status == SeqLookupStatus(searchResult)
        q == SetMacs(
                [p EXCEPT
                    !.event.run = k,
                    !.event.response =
                        [op |-> "searchByMac", mac |-> p.runs[k].mac, index |-> 0,
                         answer |-> SearchAnswer(searchResult)],
                    !.isLoading = FALSE,
                    !.runs = RemoveAt(@, k)],
                <<[p.runs[k].updatedMacs[1] EXCEPT
                      !.status = status, !.hasCurrentData = (status = "found")]>>)
    IN  IF status = "unknown" THEN [q EXCEPT !.statusError = classifiedError] ELSE q

\* The searchByMac of handleMacValidated settles.
SingleSearchSettles ==
    \E k \in {j \in DOMAIN runs : runs[j].pc = "search"} :
        \E fx \in SearchAnswers(runs[k].mac) :
            /\ Answered(fx \in FailingSearchFetch)
            /\ \E settled \in {SingleSearchOutcome[config, runs[k].mac, fx]} :
                   Becomes(SingleSearchSettled(Page, k, settled.searchResult,
                                               settled.classifiedError))
            /\ UNCHANGED clicks

\* handleRetryStatusCheck: "Retry" on the status error banner.
SingleClickRetryStatus ==
    /\ IsClassified(statusError)
    /\ statusError.isRetryable
    /\ ~showConfirmDialog
    /\ CanStart
    /\ UNCHANGED <<clicks, backend>>
    /\ Becomes(
        IF macs = <<>> THEN Page
        ELSE SingleHandleMacValidated(
                [Page EXCEPT
                    !.statusError = NoError,
                    !.runs = Append(@, [Run("validate", "oui", macs[1].mac,
                                            provisionDefaults, <<>>)
                                           EXCEPT !.mounted = FALSE])],
                Len(runs) + 1))

\* onDismiss of the two error banners.
SingleDismissStatusError ==
    /\ IsClassified(statusError)
    /\ ~showConfirmDialog
    /\ Becomes([Page EXCEPT !.statusError = NoError])
    /\ UNCHANGED <<clicks, backend>>

SingleDismissProvisionError ==
    /\ IsClassified(provisionError)
    /\ ~showConfirmDialog
    /\ Becomes([Page EXCEPT !.provisionError = NoError])
    /\ UNCHANGED <<clicks, backend>>

\* handleProvisionClick: the button is rendered in step 'status' while a mac is
\* tracked and isLoading is false.
SingleClickProvision ==
    /\ currentStep = "status"
    /\ macs # <<>>
    /\ ~isLoading
    /\ ~showConfirmDialog
    /\ CanStart
    /\ UNCHANGED <<clicks, backend>>
    /\ Becomes(IF macs[1].status = "found" THEN [Page EXCEPT !.showConfirmDialog = TRUE]
               ELSE SingleStartProvisioning(Page))

\* "Proceed with Provisioning" in the confirmation dialog.
SingleClickProceed ==
    /\ showConfirmDialog
    /\ CanStart
    /\ Becomes(SingleStartProvisioning(
                   [Page EXCEPT !.overwriteConfirmed = @ \cup FoundMacs(macs)]))
    /\ UNCHANGED <<clicks, backend>>

\* Mutant of SingleAddHsdSettled: a successful addHsd shows the toast but
\* leaves the address in 'provisioning'.
SingleAddHsdSettledKeepsState(p, k, result, error) ==
    LET captured == p.runs[k].updatedMacs[1]
        q == [p EXCEPT
                 !.event.run = k,
                 !.event.response =
                     [op |-> "addHsd", mac |-> captured.mac, index |-> 0,
                      answer |-> AddHsdAnswer(result)],
                 !.runs = RemoveAt(@, k)]
    IN  IF ~IsClassified(error)
        THEN [q EXCEPT !.event.toast =
                            Toast("Provisioning Complete",
                                  "MAC address provisioned successfully", "default")]
        ELSE [SetMacs(q, <<[captured EXCEPT !.provisionState = "error",
                                            !.error = ErrorText(error.message)]>>)
                 EXCEPT !.provisionError = error,
                        !.event.toast = Toast(error.title, error.message, "destructive")]

\* startProvisioning after its addHsd settled with result; error is the error it
\* shows for a failure.  The handler works on the mac its closure captured.
SingleAddHsdSettled(p, k, result, error) ==
    LET captured == p.runs[k].updatedMacs[1]
        q == [p EXCEPT
                 !.event.run = k,
                 !.event.response =
                     [op |-> "addHsd", mac |-> captured.mac, index |-> 0,
                      answer |-> AddHsdAnswer(result)],
                 !.runs = RemoveAt(@, k)]
    IN  IF ~IsClassified(error)
        THEN [SetMacs(q, <<[captured EXCEPT !.provisionState = "complete"]>>)
                 EXCEPT !.event.toast =
                            Toast("Provisioning Complete",
                                  "MAC address provisioned successfully", "default")]
        ELSE [SetMacs(q, <<[captured EXCEPT !.provisionState = "error",
                                            !.error = ErrorText(error.message)]>>)
                 EXCEPT !.provisionError = error,
                        !.event.toast = Toast(error.title, error.message, "destructive")]

\* The addHsd of startProvisioning settles.
SingleAddHsdSettles ==
    \E k \in {j \in DOMAIN runs : runs[j].pc = "addHsd"} :
        \E fx \in AddHsdAnswers :
            /\ Answered(fx \in FailingAddFetch)
            /\ \E settled \in {SingleAddHsdOutcome[config, runs[k].updatedMacs[1].mac, fx]} :
                   Becomes(SingleAddHsdSettled(Page, k, settled.result, settled.error))
            /\ UNCHANGED clicks

\* Mutant of SingleClickRetryProvisioning: the banner offers Retry for every
\* error.
SingleClickRetryAlways ==
    /\ IsClassified(provisionError)
    /\ ~showConfirmDialog
    /\ CanStart
    /\ UNCHANGED <<clicks, backend>>
    /\ Becomes(SingleStartProvisioning([Page EXCEPT !.provisionError = NoError]))

\* handleRetryProvisioning: "Retry" on the provisioning error banner.
SingleClickRetryProvisioning ==
    /\ IsClassified(provisionError)
    /\ provisionError.isRetryable
    /\ ~showConfirmDialog
    /\ CanStart
    /\ UNCHANGED <<clicks, backend>>
    /\ Becomes(SingleStartProvisioning([Page EXCEPT !.provisionError = NoError]))

\* handleReset: "Start Over" is rendered outside step 'input' while a mac is
\* tracked.
SingleClickReset ==
    /\ currentStep # "input"
    /\ macs # <<>>
    /\ ~showConfirmDialog
    /\ clicks.reset < MaxResets
    /\ clicks' = [clicks EXCEPT !.reset = @ + 1]
    /\ UNCHANGED backend
    /\ Becomes(
        [SetMacs(SetCurrentStep(Page, "input"), <<>>) EXCEPT
            !.statusError = NoError, !.provisionError = NoError,
            !.showConfirmDialog = FALSE])

SingleInit == NoApiCall /\ PageInit(NoError)

SingleNext ==
    \/ TypeMac
    \/ ClickValidate
    \/ SingleOuiSettles
    \/ SingleDefaultsSettle
    \/ SingleSearchSettles
    \/ SingleClickRetryStatus
    \/ SingleDismissStatusError
    \/ SingleDismissProvisionError
    \/ SingleClickProvision
    \/ ClickCancel
    \/ SingleClickProceed
    \/ SingleAddHsdSettles
    \/ SingleClickRetryProvisioning
    \/ SingleClickReset

(***************************************************************************)
(* The API client on its own: one call per behaviour, in either mode,      *)
(* against every backend answer of ApiFetchOutcomes.                       *)
(***************************************************************************)
ReasonPhrase(status) ==
    CASE status = 200 -> "OK" [] status = 204 -> "No Content" [] status = 299 -> ""
      [] status = 400 -> "Bad Request" [] status = 401 -> "Unauthorized"
      [] status = 403 -> "Forbidden" [] status = 404 -> "Not Found"
      [] status = 422 -> "Unprocessable Entity" [] status = 499 -> ""
      [] status = 500 -> "Internal Server Error" [] status = 502 -> "Bad Gateway"
      [] status = 503 -> "Service Unavailable" [] status = 599 -> ""
      [] OTHER -> ""

ApiStatuses == {200, 204, 299, 400, 401, 403, 404, 422, 499, 500, 502, 503, 599}

ApiBodies ==
    {Body("empty"), Body("text"), Body("broken"), Body("true"), Body("false"),
     Body("null"), Body("number"), ArrayBody(0), ArrayBody(1),
     ObjectBody(Undefined, Undefined, Undefined),
     ObjectBody("MAC already exists", Undefined, Undefined),
     ObjectBody(Undefined, "Proxy error", "connect ECONNREFUSED"),
     ObjectBody(Undefined, Undefined, "Database unavailable"),
     ObjectBody("request timed out upstream", Undefined, Undefined)}

ApiRejections ==
    {FetchReject("TypeError", "Failed to fetch"),
     FetchReject("TypeError", "Load failed"),
     FetchReject("TypeError", "NetworkError when attempting to fetch resource."),
     FetchReject("TypeError", "Network error"),
     FetchReject("AbortError", "The operation was aborted."),
     FetchReject("AbortError", "signal is aborted without reason"),
     FetchReject("AbortError", "Aborted"),
     FetchReject("AbortError", "Failed to fetch"),
     FetchReject("AbortError", "cancelled")}

ApiFetchOutcomes ==
    {FetchResponse(st, ReasonPhrase(st), b) : st \in ApiStatuses, b \in ApiBodies}
    \cup ApiRejections

ApiMacs ==
    {"00:00:00:00:00:01", "00:00:00:00:00:03", "00:00:00:00:00:05", "00:00:00:00:00:06",
     "00:00:00:00:00:07", "00:00:00:00:00:0B", "00:00:00:00:00:15", "00:00:00:00:00:37",
     "A1:B2:C3:00:00:00", "FF:FF:FF:FF:FF:FF"}


ApiRequest(mac) ==
    [mac |-> mac, account |-> "ViaviMeter", configfile |-> "cfg0", isp |-> "CableOne"]

NoCall == [op |-> "none"]

ApiInit ==
    /\ apiCall = NoCall
    /\ apiResult = NoCall
    /\ PageInit(NoError)

\* In stub mode no request is made: the backend answer plays no part.
ApiFetchFor(cfg) ==
    IF cfg.enableStubMode THEN {FetchReject(Undefined, Undefined)} ELSE ApiFetchOutcomes

ApiSearchByMac ==
    \E cfg \in ApiConfigs, mac \in ApiMacs :
        \E fx \in ApiFetchFor(cfg) :
            /\ apiCall = NoCall
            /\ apiCall' = [op |-> "searchByMac", config |-> cfg, mac |-> mac, fx |-> fx]
            /\ apiResult' = searchByMac(cfg, mac, fx)
            /\ UNCHANGED pageVars

ApiAddHsd ==
    \E cfg \in ApiConfigs, mac \in ApiMacs :
        \E fx \in ApiFetchFor(cfg) :
            /\ apiCall = NoCall
            /\ apiCall' = [op |-> "addHsd", config |-> cfg, mac |-> mac, fx |-> fx]
            /\ apiResult' = addHsd(cfg, ApiRequest(mac), fx)
            /\ UNCHANGED pageVars

ApiNext == ApiSearchByMac \/ ApiAddHsd

(***************************************************************************)
(* The error classifier on its own: classifyError and                      *)
(* createErrorFromResponse applied once to every error and context below.  *)
(***************************************************************************)
\* Error messages: one per pattern of the table, messages matching several
\* patterns, and messages matching none.
ClassifierMessages ==
    {"Blocked by CORS policy", "Failed to fetch", "Request timed out",
     "Server error: 500", "Validation failed: MAC already exists", "401 Unauthorized",
     "Failed to load provision-defaults.json", "OUI not in approved list",
     "Something completely random happened", "",
     "CORS preflight: Failed to fetch", "Network error: connection timed out",
     "Timeout waiting for internal server", "Invalid config: HTTP 503",
     "Forbidden: invalid token", "Authentication config missing",
     "approved-ouis.json blocked by CORS"}

ClassifierNames == {"Error", "TypeError", "AbortError", "TimeoutError", "NetworkError"}

\* ErrorContext.type; Undefined when the context has none.
ClassifierTypes == {Undefined, "search", "provision", "config", "oui"}

ClassifierStatuses == {NoStatus, 200, 400, 401, 403, 404, 422, 500, 503, 599}

ClassifierResponses ==
    {FetchResponse(st, ReasonPhrase(st), b) : st \in ApiStatuses, b \in ApiBodies}

ClassifierInit == ApiInit

ClassifierClassify ==
    \E msg \in ClassifierMessages, name \in ClassifierNames,
       type \in ClassifierTypes, statusCode \in ClassifierStatuses :
        /\ apiCall = NoCall
        /\ apiCall' = [op |-> "classifyError",
                       error |-> [name |-> name, message |-> msg],
                       context |-> [Context(type, Undefined) EXCEPT !.statusCode = statusCode]]
        /\ apiResult' = Resolved(classifyError(apiCall'.error, apiCall'.context))
        /\ UNCHANGED pageVars

ClassifierCreateFromResponse ==
    \E response \in ClassifierResponses, type \in ClassifierTypes :
        /\ apiCall = NoCall
        /\ apiCall' = [op |-> "createErrorFromResponse", response |-> response,
                       context |-> Context(type, Undefined)]
        /\ apiResult' = Resolved(createErrorFromResponse(response, apiCall'.context))
        /\ UNCHANGED pageVars

ClassifierNext == ClassifierClassify \/ ClassifierCreateFromResponse

(***************************************************************************)
(* One real-mode call with its deadline timer: the request is issued with  *)
(* the timer armed, the timer is cleared when the response headers arrive, *)
(* and the body is read afterwards.  The backend may stay silent at any    *)
(* point; only the timer is bound to act.                                  *)
(***************************************************************************)
DeadlineMacs == {"00:00:00:00:00:01", "A1:B2:C3:00:00:00", "FF:FF:FF:FF:FF:FF"}

RealConfig == ApiConfig("/api/ldap", FALSE)

\* The promise of a call that has not settled.
Pending == [settled |-> "pending"]

\* What controller.abort() makes the pending fetch reject with.
AbortRejection == FetchReject("AbortError", "signal is aborted without reason")

NetworkRejections ==
    {FetchReject("TypeError", "Failed to fetch"), FetchReject("TypeError", "Network error")}

DeadlineInit == ApiInit

\* What the call ends with when fetch settles with fx.
DeadlineOutcome(op, m, fx) ==
    IF op = "searchByMac"
    THEN searchByMac(RealConfig, m, fx)
    ELSE addHsd(RealConfig, ApiRequest(m), fx)

\* searchByMac / addHsd up to `await fetch(...)`: setTimeout arms the timer.
\* onAbort is what the catch block makes of the abort, should the timer fire;
\* it depends on the call alone.
DeadlineIssue ==
    \E op \in {"searchByMac", "addHsd"}, m \in DeadlineMacs :
        /\ apiCall = NoCall
        /\ apiCall' = [op |-> op, config |-> RealConfig, mac |-> m, phase |-> "fetch",
                       timeoutId |-> TRUE, status |-> NoStatus,
                       fx |-> FetchReject(Undefined, Undefined),
                       onAbort |-> DeadlineOutcome(op, m, AbortRejection)]
        /\ apiResult' = Pending
        /\ UNCHANGED pageVars

\* fetch resolves with the response headers: clearTimeout(timeoutId); the body
\* is read next (response.json(), or response.text() for an error response).
DeadlineHeaders ==
    \E st \in ApiStatuses :
        /\ apiCall.op # "none" /\ apiCall.phase = "fetch"
        /\ apiCall' = [apiCall EXCEPT !.phase = "body", !.timeoutId = FALSE, !.status = st]
        /\ UNCHANGED <<apiResult, pageVars>>

\* What the backend can do next: fail the fetch before the headers, or end the
\* body after them.
DeadlineAnswers ==
    IF apiCall.op = "none" THEN {}
    ELSE IF apiCall.phase = "fetch" THEN NetworkRejections
    ELSE IF apiCall.phase = "body"
    THEN {FetchResponse(apiCall.status, ReasonPhrase(apiCall.status), b) : b \in ApiBodies}
    ELSE {}

\* The backend answers and the call runs to its end.  A fetch that failed
\* leaves the timer armed: the catch block does not clear it.
DeadlineAnswered ==
    \E fx \in DeadlineAnswers :
        /\ apiCall' = [apiCall EXCEPT !.phase = "done", !.fx = fx]
        /\ apiResult' = DeadlineOutcome(apiCall.op, apiCall.mac, fx)
        /\ UNCHANGED pageVars

\* The timer callback runs while fetch is pending: controller.abort() makes
\* fetch reject with an AbortError, and the catch block ends the call.
DeadlineTimerFires ==
    /\ apiCall.op # "none" /\ apiCall.phase = "fetch" /\ apiCall.timeoutId
    /\ apiCall' = [apiCall EXCEPT !.phase = "done", !.timeoutId = FALSE,
                                  !.fx = AbortRejection]
    /\ apiResult' = apiCall.onAbort
    /\ UNCHANGED pageVars

\* A timer left armed by a call that has ended fires without effect.
DeadlineLateTimer ==
    /\ apiCall.op # "none" /\ apiCall.phase = "done" /\ apiCall.timeoutId
    /\ apiCall' = [apiCall EXCEPT !.timeoutId = FALSE]
    /\ UNCHANGED <<apiResult, pageVars>>

DeadlineNext ==
    \/ DeadlineIssue
    \/ DeadlineHeaders
    \/ DeadlineAnswered
    \/ DeadlineTimerFires
    \/ DeadlineLateTimer

(***************************************************************************)
(* The MAC utilities on their own: generateSequentialMacs applied to the   *)
(* bases below, normalizeMac to twelve digits written in every style.      *)
(***************************************************************************)
\* Bases: ordinary ones, bases whose sequence carries from the low half of the
\* number into the high half, the last bases of the 48-bit range, and texts
\* that are no 48-bit number.
SequenceBases ==
    {"00:00:00:00:00:00", "A1:B2:C3:00:00:00", "a1:b2:c3:00:00:0e", "A1B2C3FFFFFC",
     "00:00:00:FF:FF:FD", "00:00:00:FF:FF:FF", "12:34:56:FF:FF:FE", "FF:FF:FE:FF:FF:FF",
     "FF:FF:FF:FF:FF:FB", "FF:FF:FF:FF:FF:FC", "FF:FF:FF:FF:FF:FD", "FF:FF:FF:FF:FF:FE",
     "FF:FF:FF:FF:FF:FF", "01:00:00:00:00:00:00", "00:FF:FF:FF:FF:FF:FE",
     "", "A1:B2:C3:00:00:0G", "A1-B2-C3-00-00-00"}

\* The counts a caller may ask for.
MaxCount == 4

\* Twelve hex digits, in upper, lower and mixed case.
DigitTexts ==
    {"A1B2C3D4E5F6", "a1b2c3d4e5f6", "A1b2C3d4E5f6", "000000000000", "001122334455",
     "FFFFFFFFFFFF", "ffffffffffff", "0A1b2C3d4E5f", "deadBEEF0123", "9F8E7D6C5B4A"}

\* The digits d grouped by `group` with the separator sep between groups.
RECURSIVE Grouped(_, _, _)
Grouped(d, group, sep) ==
    IF Len(d) <= group THEN d
    ELSE SubSeq(d, 1, group) \o sep \o Grouped(SubSeq(d, group + 1, Len(d)), group, sep)

\* The styles an address is written in: bare, colons, hyphens, Cisco dots,
\* spaces, and with blanks around it.
StyleNames == {"bare", "colon", "hyphen", "dot", "space", "padded"}

Styled(d, style) ==
    CASE style = "bare" -> d
      [] style = "colon" -> Grouped(d, 2, ":")
      [] style = "hyphen" -> Grouped(d, 2, "-")
      [] style = "dot" -> Grouped(d, 4, ".")
      [] style = "space" -> Grouped(d, 2, " ")
      [] OTHER -> " " \o Grouped(d, 2, "-") \o " "

MacInit == ApiInit

\* generateSequentialMacs(base); a count passed as a second argument is
\* ignored, the function has one parameter.
MacGenerateSequence ==
    \E base \in SequenceBases, count \in 1..MaxCount :
        /\ apiCall = NoCall
        /\ apiCall' = [op |-> "generateSequentialMacs", base |-> base, count |-> count]
        /\ apiResult' = generateSequentialMacs(base)
        /\ UNCHANGED pageVars

\* normalizeMac(input), input being the digits d written in some style.
MacNormalize ==
    \E d \in DigitTexts, style \in StyleNames :
        /\ apiCall = NoCall
        /\ apiCall' = [op |-> "normalizeMac", input |-> Styled(d, style), digits |-> d]
        /\ apiResult' = normalizeMac(Styled(d, style))
        /\ UNCHANGED pageVars

\* What the user has typed so far, as handleInputChange receives it.
TypedTexts ==
    {"aabbccddeeff", "a1:b2:c3:d4:e5:f6", "A1-B2-C3-D4", "ghij1234", ":::AABBCC:::",
     "aabb.ccdd.eeff", "a1 b2 c3 d4 e5 f6 07", "0", ""}

\* normalizeMac on a text and on one of its prefixes, as typing produces them.
MacNormalizeTyping ==
    \E x \in TypedTexts :
        \E n \in 0..Len(x) :
            /\ apiCall = NoCall
            /\ apiCall' = [op |-> "normalizeTyping", input |-> x, prefix |-> SubSeq(x, 1, n)]
            /\ apiResult' = [whole |-> normalizeMac(x),
                             part |-> normalizeMac(SubSeq(x, 1, n))]
            /\ UNCHANGED pageVars

MacNext == MacGenerateSequence \/ MacNormalize \/ MacNormalizeTyping

(***************************************************************************)
(* The edge proxy: the /api/ldap middleware of vite.config.ts               *)
(***************************************************************************)

LDAP_API_URL == "https://ldap-api.apps.prod-ocp4.corp.cableone.net"

\* ASCII: the characters of codes 32 to 90, 97 to 122 and 123 to 126.
AsciiLow == " !\"#$%&'()*+,-./0123456789:;<=>?@ABCDEFGHIJKLMNOPQRSTUVWXYZ"
AsciiHigh == "abcdefghijklmnopqrstuvwxyz{|}~"

CodeOf(c) ==
    IF \E k \in 1..Len(AsciiHigh) : CharAt(AsciiHigh, k) = c
    THEN 96 + (CHOOSE k \in 1..Len(AsciiHigh) : CharAt(AsciiHigh, k) = c)
    ELSE 31 + (CHOOSE k \in 1..Len(AsciiLow) : CharAt(AsciiLow, k) = c)

\* The bytes of an ASCII text on the wire.
AsciiBytes(t) == [i \in 1..Len(t) |-> CodeOf(CharAt(t, i))]

\* A text is a sequence of code points, a body on the wire a sequence of bytes.
ReplacementChar == 65533
ByteOrderMark == 65279

IsContinuation(b) == b >= 128 /\ b <= 191

\* UTF-8 decoding of a byte sequence (sequences of one, two and three bytes):
\* every byte that is no part of a well-formed sequence gives U+FFFD.
RECURSIVE Utf8Decode(_)
Utf8Decode(bytes) ==
    IF bytes = <<>> THEN <<>>
    ELSE IF bytes[1] < 128
    THEN <<bytes[1]>> \o Utf8Decode(Tail(bytes))
    ELSE IF bytes[1] >= 194 /\ bytes[1] <= 223 /\ Len(bytes) >= 2 /\ IsContinuation(bytes[2])
    THEN <<(bytes[1] - 192) * 64 + (bytes[2] - 128)>>
         \o Utf8Decode(SubSeq(bytes, 3, Len(bytes)))
    ELSE IF /\ bytes[1] >= 225 /\ bytes[1] <= 239 /\ bytes[1] # 237
            /\ Len(bytes) >= 3 /\ IsContinuation(bytes[2]) /\ IsContinuation(bytes[3])
    THEN <<(bytes[1] - 224) * 4096 + (bytes[2] - 128) * 64 + (bytes[3] - 128)>>
         \o Utf8Decode(SubSeq(bytes, 4, Len(bytes)))
    ELSE <<ReplacementChar>> \o Utf8Decode(Tail(bytes))

\* UTF-8 encoding of a text.
RECURSIVE Utf8Encode(_)
Utf8Encode(text) ==
    IF text = <<>> THEN <<>>
    ELSE (IF text[1] < 128 THEN <<text[1]>>
          ELSE IF text[1] < 2048
          THEN <<192 + (text[1] \div 64), 128 + (text[1] % 64)>>
          ELSE <<224 + (text[1] \div 4096), 128 + ((text[1] \div 64) % 64),
                 128 + (text[1] % 64)>>)
         \o Utf8Encode(Tail(text))

\* chunk.toString(): the chunk decoded on its own.
ChunkToString(chunk) == Utf8Decode(chunk)

\* body += chunk.toString() for every 'data' event, resolved at 'end'.
RECURSIVE CollectBody(_)
CollectBody(chunks) ==
    IF chunks = <<>> THEN <<>>
    ELSE ChunkToString(Head(chunks)) \o CollectBody(Tail(chunks))

\* response.text(): the body decoded as UTF-8, a leading byte order mark
\* removed.
ResponseText(bytes) ==
    IF Utf8Decode(bytes) # <<>> /\ Utf8Decode(bytes)[1] = ByteOrderMark
    THEN Tail(Utf8Decode(bytes))
    ELSE Utf8Decode(bytes)

\* The request the middleware receives: req.method, req.url (the part after
\* the prefix) and the 'data' chunks of its body.
ProxyRequest(method, url, chunks) == [method |-> method, url |-> url, chunks |-> chunks]

\* What the backend does with the forwarded request: it answers (status,
\* Content-Type header or Undefined, body bytes; readable is FALSE when the
\* body stream fails while it is read, and response.text() rejects with an
\* Error), or fetch rejects (isError tells an Error from any other thrown
\* value).
BackendResponse(status, contentType, bytes, readable) ==
    [kind |-> "response", status |-> status, contentType |-> contentType,
     bytes |-> bytes, readable |-> readable, isError |-> ~readable,
     message |-> IF readable THEN Undefined ELSE "terminated"]
BackendReject(isError, message) ==
    [kind |-> "reject", status |-> 0, contentType |-> Undefined, bytes |-> <<>>,
     readable |-> FALSE, isError |-> isError, message |-> message]

\* `${LDAP_API_URL}${req.url || ''}`
TargetUrl(req) == LDAP_API_URL \o OrElse(req.url, "")

\* The fetch call the middleware makes: method, headers, and the body as it
\* goes on the wire (Undefined for no body).
ProxyFetch(req) ==
    [url |-> TargetUrl(req),
     method |-> OrElse(req.method, "GET"),
     contentType |-> "application/json",
     accept |-> "application/json",
     body |-> IF req.method \in {"POST", "PUT"}
              THEN Utf8Encode(CollectBody(req.chunks))
              ELSE Undefined]

\* What the middleware writes with res.writeHead and res.end: the body is
\* either the bytes of a text or the JSON of the error envelope.
ProxyResponse(status, contentType, allowOrigin, body) ==
    [status |-> status, contentType |-> contentType, allowOrigin |-> allowOrigin,
     body |-> body]
\* Mutant of EnvelopePayload: the envelope names its first field detail.
EnvelopePayloadDetail(message, target) ==
    [kind |-> "json", bytes |-> <<>>, fields |-> <<"detail", "message", "target">>,
     error |-> Undefined, message |-> message, target |-> target]

TextPayload(bytes) ==
    [kind |-> "text", bytes |-> bytes, fields |-> <<>>, error |-> Undefined,
     message |-> Undefined, target |-> Undefined]
EnvelopePayload(message, target) ==
    [kind |-> "json", bytes |-> <<>>, fields |-> <<"error", "message", "target">>,
     error |-> "Proxy error", message |-> message, target |-> target]

\* Mutant of ProxyCatch: the status the failure is reported with is 500.
ProxyCatchAs500(req, outcome) ==
    ProxyResponse(500, "application/json", Undefined,
        EnvelopePayload(IF outcome.isError THEN outcome.message ELSE "Unknown proxy error",
                        TargetUrl(req)))

\* The catch block: 502 and the envelope.
ProxyCatch(req, outcome) ==
    ProxyResponse(502, "application/json", Undefined,
        EnvelopePayload(IF outcome.isError THEN outcome.message ELSE "Unknown proxy error",
                        TargetUrl(req)))

\* The response path: status, Content-Type and text of the backend's answer.
ProxyMirror(outcome) ==
    ProxyResponse(outcome.status, OrElse(outcome.contentType, "application/json"), "*",
                  TextPayload(Utf8Encode(ResponseText(outcome.bytes))))

\* The middleware on request req when the backend does `outcome`: the fetch
\* call it makes and the response it writes.
proxyHandler(req, outcome) ==
    [forwarded |-> ProxyFetch(req),
     response |-> IF outcome.kind = "response" /\ outcome.readable
                  THEN ProxyMirror(outcome)
                  ELSE ProxyCatch(req, outcome)]

ProxyMethods == {"GET", "POST", "PUT", "DELETE", Undefined}

ProxyUrls ==
    {"/searchbymac/AA%3ABB%3ACC%3A00%3A00%3A01", "/search?mac=AA&verbose=1", "",
     Undefined}

\* Request bodies as they arrive: no data, one chunk, two chunks; a text with
\* the two-byte character U+00E9 whole in one chunk, and split between two.
ProxyChunkings ==
    {<<>>,
     <<AsciiBytes("{\"isp\":\"CableOne\"}")>>,
     <<AsciiBytes("{\"isp\":"), AsciiBytes("\"CableOne\"}")>>,
     <<AsciiBytes("{\"isp\":\"Caf") \o <<195, 169>> \o AsciiBytes("\"}")>>,
     <<AsciiBytes("{\"isp\":\"Caf") \o <<195, 169>>, AsciiBytes("\"}")>>,
     <<AsciiBytes("{\"isp\":\"Caf") \o <<195>>, <<169>> \o AsciiBytes("\"}")>>}

ProxyRequests ==
    {ProxyRequest(m, u, c) : m \in ProxyMethods, u \in ProxyUrls, c \in ProxyChunkings}

ProxyStatuses == {200, 404, 500, 502}

ProxyContentTypes ==
    {Undefined, "application/json", "text/html; charset=utf-8",
     "text/plain; charset=iso-8859-1"}

\* Backend bodies: empty, JSON, plain text, UTF-8 text with U+00E9, JSON after
\* a byte order mark, and Latin-1 text with the byte E9.
BackendBodies ==
    {<<>>,
     AsciiBytes("{\"result\":\"success\"}"),
     AsciiBytes("Not Found"),
     AsciiBytes("Caf") \o <<195, 169>>,
     <<239, 187, 191>> \o AsciiBytes("{}"),
     AsciiBytes("Caf") \o <<233>>}

BackendRejections ==
    {BackendReject(TRUE, "getaddrinfo ENOTFOUND ldap-api.apps.prod-ocp4.corp.cableone.net"),
     BackendReject(TRUE, "connect ECONNREFUSED 127.0.0.1:8080"),
     BackendReject(TRUE, "Request timeout"),
     BackendReject(TRUE, "fetch failed"),
     BackendReject(TRUE, ""),
     BackendReject(FALSE, "string error"),
     BackendReject(FALSE, Undefined)}

BackendOutcomes ==
    {BackendResponse(st, ct, b, TRUE) :
        st \in ProxyStatuses, ct \in ProxyContentTypes, b \in BackendBodies}
    \cup {BackendResponse(st, "application/json", <<>>, FALSE) : st \in ProxyStatuses}
    \cup BackendRejections

ProxyInit == ApiInit

\* One request through the middleware.
ProxyForward ==
    /\ apiCall = NoCall
    /\ \E req \in ProxyRequests, outcome \in BackendOutcomes :
        /\ apiCall' = [op |-> "proxy", req |-> req, outcome |-> outcome]
        /\ apiResult' = proxyHandler(req, outcome)
        /\ UNCHANGED pageVars

\* The bodies a backend answers the client's calls with: the text on the
\* wire and what JSON.parse makes of it.
JsonTexts ==
    {[text |-> "{\"detail\":\"Bad gateway\"}",
      json |-> ObjectBody("Bad gateway", Undefined, Undefined)],
     [text |-> "{\"error\":\"upstream down\"}",
      json |-> ObjectBody(Undefined, "upstream down", Undefined)],
     [text |-> "{\"message\":\"LDAP unavailable\"}",
      json |-> ObjectBody(Undefined, Undefined, "LDAP unavailable")],
     [text |-> "{}", json |-> ObjectBody(Undefined, Undefined, Undefined)],
     [text |-> "true", json |-> Body("true")],
     [text |-> "Bad Gateway", json |-> Body("text")],
     [text |-> "", json |-> Body("empty")]}

\* response.json() in the browser, on the body the middleware has written.
ClientBody(payload) ==
    IF payload.kind = "json"
    THEN ObjectBody(Undefined, payload.error, payload.message)
    ELSE IF \E e \in JsonTexts : AsciiBytes(e.text) = payload.bytes
    THEN (CHOOSE e \in JsonTexts : AsciiBytes(e.text) = payload.bytes).json
    ELSE Body("text")

\* The response the browser's fetch resolves with.
ClientResponse(written) ==
    FetchResponse(written.status, ReasonPhrase(written.status), ClientBody(written.body))

\* JSON.stringify(request) of addHsd.
RequestJson(request) ==
    "{\"mac\":\"" \o request.mac \o "\",\"account\":\"" \o request.account
        \o "\",\"configfile\":\"" \o request.configfile \o "\",\"isp\":\"" \o request.isp
        \o "\"}"

\* The request a client call puts through the middleware.
ClientRequest(op, mac) ==
    IF op = "searchByMac"
    THEN ProxyRequest("GET", "/searchbymac/" \o EncodeURIComponent(mac), <<>>)
    ELSE ProxyRequest("POST", "/addhsd", <<AsciiBytes(RequestJson(ApiRequest(mac)))>>)

ClientBackendOutcomes ==
    {BackendResponse(st, "application/json", AsciiBytes(e.text), TRUE) :
        st \in {200, 500, 502}, e \in JsonTexts}
    \cup BackendRejections

\* A call of the API client, in real mode, that goes through the middleware.
ProxyClientCall ==
    /\ apiCall = NoCall
    /\ \E op \in {"searchByMac", "addHsd"},
          mac \in {"AA:BB:CC:00:00:01", "00:00:00:00:00:37"},
          outcome \in ClientBackendOutcomes :
        \E written \in {proxyHandler(ClientRequest(op, mac), outcome).response} :
            \E fx \in {ClientResponse(written)} :
                /\ apiCall' = [op |-> "proxied", call |-> op, mac |-> mac,
                               outcome |-> outcome]
                /\ apiResult' =
                      [proxy |-> written,
                       client |-> IF op = "searchByMac"
                                  THEN searchByMac(RealConfig, mac, fx)
                                  ELSE addHsd(RealConfig, ApiRequest(mac), fx)]
                /\ UNCHANGED pageVars

ProxyNext == ProxyForward \/ ProxyClientCall

(***************************************************************************)
(* The server logger and the API client's calls to it                      *)
(***************************************************************************)
\* What the log sink does with a POST /api/log: it answers, it refuses the
\* connection, or it never answers.
LogSinks == {"accepts", "rejects", "silent"}

\* The promise fetch('/api/log', ...) returns under a sink.
LogFetch(sink) ==
    CASE sink = "accepts" -> "fulfilled"
      [] sink = "rejects" -> "rejected"
      [] OTHER -> "pending"

\* ServerLogger.send: writes to the console, then awaits the post inside
\* try/catch.  An async function never throws into its caller; the record is
\* the promise it returns.
send(payload, sink) ==
    [console |-> payload,
     posted |-> payload,
     promise |-> IF LogFetch(sink) = "rejected" THEN "fulfilled" ELSE LogFetch(sink)]

\* Mutant of LogCall: the logger method is async and awaited by its caller
\* (await this.send(...)), so the caller waits for the sink.
LogCallAwaited(level, message, sink) ==
    LET p == send([level |-> level, message |-> message], sink)
    IN  [effect |-> CASE p.promise = "fulfilled" -> "returns"
                      [] p.promise = "rejected" -> "throws"
                      [] OTHER -> "waits",
         post |-> p]

\* ServerLogger.debug / info / warn / error: call send and drop its promise.
\* effect is what the call does to its caller.
LogCall(level, message, sink) ==
    LET p == send([level |-> level, message |-> message], sink)
    IN  [effect |-> "returns", post |-> p]

LogEntry(level, message) == [level |-> level, message |-> message]

\* The logger calls of the catch block of searchByMac.
searchByMacCatchLog(error) ==
    IF error.name = "AbortError"
    THEN <<LogEntry("error", "[API] Search timeout")>>
    ELSE IF IsClassified(error.classifiedError)
    THEN <<>>
    ELSE <<LogEntry("error", "[API] Search error")>>

\* The logger calls searchByMac makes, in order, when fetch settles with fx.
searchByMacLog(cfg, fx) ==
    IF cfg.enableStubMode
    THEN <<LogEntry("info", "[API] Stub mode enabled, using mock data")>>
    ELSE <<LogEntry("info", "[API] Fetching")>> \o
         (IF fx.kind = "reject"
          THEN searchByMacCatchLog(PlainError(fx.name, fx.message))
          ELSE <<LogEntry("info", "[API] Response received")>> \o
               (IF ~ResponseOk(fx)
                THEN <<LogEntry("error", "[API] Search error response")>>
                ELSE IF ResponseJson(fx).settled = "rejected"
                THEN searchByMacCatchLog(ResponseJson(fx).error)
                ELSE <<LogEntry("info", "[API] Response data")>>))

\* The logger calls addHsd makes: one, in the catch block, unless the error
\* is the abort.
addHsdLog(cfg, fx) ==
    IF cfg.enableStubMode THEN <<>>
    ELSE IF fx.kind = "reject"
    THEN IF fx.name = "AbortError" THEN <<>>
         ELSE <<LogEntry("error", "[API] Provision error")>>
    ELSE IF ResponseOk(fx) /\ ResponseJson(fx).settled = "rejected"
    THEN IF ResponseJson(fx).error.name = "AbortError" THEN <<>>
         ELSE <<LogEntry("error", "[API] Provision error")>>
    ELSE <<>>

\* The outcome of an API method that makes the logger calls log on its way to
\* outcome: the first call that does not return decides.
Logged(log, sink, outcome) ==
    LET effects == [k \in DOMAIN log |-> LogCall(log[k].level, log[k].message, sink).effect]
        stopped == {k \in DOMAIN log : effects[k] # "returns"}
    IN  IF stopped = {} THEN outcome
        ELSE LET first == CHOOSE k \in stopped : \A j \in stopped : k <= j
             IN  IF effects[first] = "waits" THEN Pending
                 ELSE Rejected(PlainError("TypeError", "Failed to fetch"))

\* The posts the logger has handed to the sink.
Posts(log, sink) ==
    [k \in DOMAIN log |-> LogCall(log[k].level, log[k].message, sink).post]

LoggerInit == ApiInit

LoggedSearchByMac ==
    /\ apiCall = NoCall
    /\ \E cfg \in ApiConfigs, mac \in ApiMacs, sink \in LogSinks :
        \E fx \in ApiFetchFor(cfg) :
            \E outcome \in {searchByMac(cfg, mac, fx)}, log \in {searchByMacLog(cfg, fx)} :
                /\ apiCall' = [op |-> "searchByMac", config |-> cfg, mac |-> mac, fx |-> fx,
                               sink |-> sink, log |-> log, posts |-> Posts(log, sink),
                               unlogged |-> outcome]
                /\ apiResult' = Logged(log, sink, outcome)
                /\ UNCHANGED pageVars

LoggedAddHsd ==
    /\ apiCall = NoCall
    /\ \E cfg \in ApiConfigs, mac \in ApiMacs, sink \in LogSinks :
        \E fx \in ApiFetchFor(cfg) :
            \E outcome \in {addHsd(cfg, ApiRequest(mac), fx)}, log \in {addHsdLog(cfg, fx)} :
                /\ apiCall' = [op |-> "addHsd", config |-> cfg, mac |-> mac, fx |-> fx,
                               sink |-> sink, log |-> log, posts |-> Posts(log, sink),
                               unlogged |-> outcome]
                /\ apiResult' = Logged(log, sink, outcome)
                /\ UNCHANGED pageVars

LoggerNext == LoggedSearchByMac \/ LoggedAddHsd

vars == <<apiCall, apiResult, config, currentStep, baseMac, macs, isLoading, statusError,
         provisionError, showConfirmDialog, provisionDefaults, validator, runs, event,
         overwriteConfirmed, clicks, backend>>

SpecApi == ApiInit /\ [][ApiNext]_vars

SpecSeq == SeqInit /\ [][SeqNext]_vars

SpecSingle == SingleInit /\ [][SingleNext]_vars

SpecClassifier == ClassifierInit /\ [][ClassifierNext]_vars

SpecMac == MacInit /\ [][MacNext]_vars

SpecProxy == ProxyInit /\ [][ProxyNext]_vars

SpecLogger == LoggerInit /\ [][LoggerNext]_vars

\* The timer is the program's own: once armed it fires unless cleared.  Nothing
\* obliges the backend to answer.

SpecDeadline ==
    DeadlineInit /\ [][DeadlineNext]_vars
        /\ WF_vars(DeadlineTimerFires) /\ WF_vars(DeadlineLateTimer)

(***************************************************************************)
(* Claims about the API client                                             *)
(***************************************************************************)
IsAddHsdCall == apiCall.op = "addHsd"
IsSearchCall == apiCall.op = "searchByMac"
IsRealCall == apiCall.op # "none" /\ ~apiCall.config.enableStubMode

\* C7: addHsd never rejects: in real mode for every backend answer, and in stub
\* mode for every address, the call resolves to an outcome whose success field
\* is a boolean.
C7_AddHsdNeverRejects ==
    IsAddHsdCall =>
        /\ apiResult.settled = "resolved"
        /\ apiResult.value.success \in BOOLEAN

\* C7 witness: a real-mode addHsd whose fetch was rejected (a network failure)
\* has resolved to a failure outcome.
C7_Witness ==
    /\ IsAddHsdCall /\ IsRealCall
    /\ apiCall.fx.kind = "reject"
    /\ apiResult.settled = "resolved"
    /\ apiResult.value.success = FALSE

\* C8 (as claimed): every rejection of searchByMac carries a ClassifiedError
\* with a category of the taxonomy, the stub's simulated failure included.
C8_EveryRejectionClassified ==
    (IsSearchCall /\ apiResult.settled = "rejected") =>
        /\ IsClassified(apiResult.error.classifiedError)
        /\ apiResult.error.classifiedError.category \in ErrorCategory

\* C9 (as claimed): every addHsd outcome with success = false carries a
\* ClassifiedError.
C9_FailureCarriesError ==
    (IsAddHsdCall /\ apiResult.settled = "resolved" /\ ~apiResult.value.success) =>
        IsClassified(apiResult.value.error)

\* Real-mode addHsd against a response: success exactly when the response is
\* 2xx with the JSON body true.
AddHsdSuccessExact ==
    (IsAddHsdCall /\ IsRealCall) =>
        /\ apiResult.settled = "resolved"
        /\ apiResult.value.success =
              (/\ apiCall.fx.kind = "response"
               /\ ResponseOk(apiCall.fx)
               /\ apiCall.fx.body.kind = "true")

\* Real-mode addHsd answered with a status in `statuses` is a failure outcome
\* of category `category`.
AddHsdStatusCategory(statuses, category) ==
    (IsAddHsdCall /\ IsRealCall /\ apiCall.fx.kind = "response"
        /\ apiCall.fx.status \in statuses) =>
        /\ apiResult.settled = "resolved"
        /\ apiResult.value.success = FALSE
        /\ IsClassified(apiResult.value.error)
        /\ apiResult.value.error.category = category

\* C10 (as claimed): success exactly on 2xx with body true; every 400-class
\* status gives category validation, every 5xx gives category server.
C10_Original ==
    /\ AddHsdSuccessExact
    /\ AddHsdStatusCategory(400..499, "validation")
    /\ AddHsdStatusCategory(500..599, "server")

\* C10 (amended): success exactly on 2xx with body true; status 400 gives
\* category validation, every 5xx gives category server.
C10_StatusCategories ==
    /\ AddHsdSuccessExact
    /\ AddHsdStatusCategory({400}, "validation")
    /\ AddHsdStatusCategory(500..599, "server")

\* C10 witness: a real-mode addHsd answered 400 has given a validation failure.
C10_Witness ==
    /\ IsAddHsdCall /\ IsRealCall
    /\ apiCall.fx.kind = "response" /\ apiCall.fx.status = 400
    /\ IsClassified(apiResult.value.error)
    /\ apiResult.value.error.category = "validation"


\* The backend answer of the call was an abort of the request.
IsAborted == IsRealCall /\ apiCall.fx.kind = "reject" /\ apiCall.fx.name = "AbortError"

\* C11: when a real-mode request is aborted, searchByMac rejects with a
\* ClassifiedError of category timeout and addHsd resolves to a failure outcome
\* of category timeout, whatever the message of the abort error; both are
\* retryable.
C11_AbortIsTimeout ==
    IsAborted =>
        IF IsSearchCall
        THEN /\ apiResult.settled = "rejected"
             /\ IsClassified(apiResult.error.classifiedError)
             /\ apiResult.error.classifiedError.category = "timeout"
             /\ apiResult.error.classifiedError.isRetryable
        ELSE /\ apiResult.settled = "resolved"
             /\ ~apiResult.value.success
             /\ IsClassified(apiResult.value.error)
             /\ apiResult.value.error.category = "timeout"
             /\ apiResult.value.error.isRetryable

\* C11 witness: a searchByMac aborted with a message that no timeout pattern
\* matches has rejected with category timeout.
C11_Witness ==
    /\ IsAborted /\ IsSearchCall
    /\ apiCall.fx.message = "cancelled"
    /\ apiResult.settled = "rejected"
    /\ apiResult.error.classifiedError.category = "timeout"


\* C12 (as claimed): every real-mode call that was issued eventually settles,
\* whether the backend never sends headers or sends headers and never
\* finishes the body.
C12_EveryCallSettles ==
    (apiCall.op # "none") ~> (apiCall.op # "none" /\ apiResult.settled # "pending")

\* While the headers have not arrived the deadline holds: the call ends, and
\* when the timer ended it the outcome is a timeout failure.
C12_DeadlineBeforeHeaders ==
    /\ (apiCall.op # "none" /\ apiCall.phase = "fetch")
          ~> (apiCall.op # "none" /\ apiCall.phase # "fetch")
    /\ []((apiCall.op # "none" /\ apiCall.phase = "done" /\ apiCall.fx = AbortRejection) =>
            IF apiCall.op = "searchByMac"
            THEN /\ apiResult.settled = "rejected"
                 /\ apiResult.error.classifiedError.category = "timeout"
            ELSE /\ apiResult.settled = "resolved"
                 /\ ~apiResult.value.success
                 /\ apiResult.value.error.category = "timeout")

\* The headers have arrived, the timer is cleared and the body is still unread.
C12_BodyWithoutDeadline ==
    /\ apiCall.op # "none" /\ apiCall.phase = "body"
    /\ ~apiCall.timeoutId /\ apiResult = Pending


\* The integer value of an address modulo d, from the two halves of the number.
ValueMod(mac, d) ==
    (((BigIntOfHex(RemoveColons(mac)).hi % d) * (Half % d))
        + (BigIntOfHex(RemoveColons(mac)).lo % d)) % d

IsStubCall == apiCall.op # "none" /\ apiCall.config.enableStubMode

\* C23: in stub mode searchByMac returns exactly one record, for the address
\* asked, when the address value is divisible by 3 (those divisible by 21
\* included), rejects with the simulated server error when it is divisible by
\* 7 but not by 21, and returns an empty list otherwise.
C23_StubSearchByValue ==
    (IsSearchCall /\ IsStubCall) =>
        IF ValueMod(apiCall.mac, 3) = 0
        THEN /\ apiResult.settled = "resolved"
             /\ apiResult.value.kind = "array" /\ apiResult.value.items = 1
             /\ apiResult.value.first.mac = apiCall.mac
        ELSE IF ValueMod(apiCall.mac, 7) = 0
        THEN /\ apiResult.settled = "rejected"
             /\ apiResult.error.message = "Simulated server error (5xx)"
        ELSE /\ apiResult.settled = "resolved"
             /\ apiResult.value.kind = "array" /\ apiResult.value.items = 0

\* C23 witness: the stub search for address 0x15 = 21 has returned one record.
C23_Witness ==
    /\ IsSearchCall /\ IsStubCall
    /\ apiCall.mac = "00:00:00:00:00:15"
    /\ apiResult.settled = "resolved" /\ apiResult.value.items = 1

\* C24: in stub mode addHsd resolves to a failure of category server when the
\* address value is divisible by 11, otherwise to a failure of category
\* validation when it is divisible by 5, otherwise to success.
C24_StubAddHsdByValue ==
    (IsAddHsdCall /\ IsStubCall) =>
        /\ apiResult.settled = "resolved"
        /\ IF ValueMod(apiCall.mac, 11) = 0
           THEN /\ ~apiResult.value.success
                /\ apiResult.value.error.category = "server"
           ELSE IF ValueMod(apiCall.mac, 5) = 0
           THEN /\ ~apiResult.value.success
                /\ apiResult.value.error.category = "validation"
           ELSE apiResult.value.success

\* C24 witness: the stub addHsd for address 0x37 = 55, divisible by 5 and by 11,
\* has given a server failure.
C24_Witness ==
    /\ IsAddHsdCall /\ IsStubCall
    /\ apiCall.mac = "00:00:00:00:00:37"
    /\ ~apiResult.value.success
    /\ apiResult.value.error.category = "server"


(***************************************************************************)
(* Claims about the error classifier (SpecClassifier)                      *)
(***************************************************************************)
IsClassifyCall == apiCall.op = "classifyError"
IsCreateFromResponseCall == apiCall.op = "createErrorFromResponse"

\* C13: classifyError with statusCode >= 500 gives category server, with 400
\* validation, with 401 or 403 auth, for every message and every context type:
\* the status code is looked at before anything else.
C13_StatusCodeFirst ==
    IsClassifyCall =>
        /\ apiCall.context.statusCode >= 500 => apiResult.value.category = "server"
        /\ apiCall.context.statusCode = 400 => apiResult.value.category = "validation"
        /\ apiCall.context.statusCode \in {401, 403} => apiResult.value.category = "auth"

\* C13 witness: an error whose message matches the cors pattern, in an oui
\* context and with status code 500, has been classified server.
C13_Witness ==
    /\ IsClassifyCall
    /\ apiCall.context.type = "oui" /\ apiCall.context.statusCode = 500
    /\ apiCall.error.message = "Blocked by CORS policy"
    /\ apiResult.value.category = "server"

\* The call has context type oui and a status code no status rule matches.
IsOuiCall ==
    /\ IsClassifyCall /\ apiCall.context.type = "oui"
    /\ apiCall.context.statusCode \notin {400, 401, 403}
    /\ apiCall.context.statusCode < 500

\* Some text pattern of the table matches the message or the name of the error.
TextMatched(error) ==
    \E key \in {"cors", "network", "timeout", "server", "validation", "auth", "config"} :
        \/ PatternTest(key, ToLowerCase(error.message))
        \/ PatternTest(key, ToLowerCase(error.name))

\* C14 (as claimed): with context type oui and no status code that a status
\* rule matches, classifyError gives category oui, not retryable, for every
\* message.
C14_OuiWhateverMessage ==
    IsOuiCall => (apiResult.value.category = "oui" /\ ~apiResult.value.isRetryable)

\* With context type oui the category is oui when no text pattern matches the
\* message or the name.
C14_OuiWhenNoTextMatches ==
    (IsOuiCall /\ ~TextMatched(apiCall.error)) =>
        (apiResult.value.category = "oui" /\ ~apiResult.value.isRetryable)

\* The fixed order of the text patterns.
PatternOrder == <<"cors", "network", "timeout", "server", "validation", "auth", "config">>

\* The category of the first text pattern, in PatternOrder, matching the
\* message or the name; unknown when none matches.
FirstTextCategory(error) ==
    IF TextMatched(error)
    THEN PatternOrder[CHOOSE i \in 1..Len(PatternOrder) :
            /\ \/ PatternTest(PatternOrder[i], ToLowerCase(error.message))
               \/ PatternTest(PatternOrder[i], ToLowerCase(error.name))
            /\ \A j \in 1..(i - 1) :
                  /\ ~PatternTest(PatternOrder[j], ToLowerCase(error.message))
                  /\ ~PatternTest(PatternOrder[j], ToLowerCase(error.name))]
    ELSE "unknown"

\* C15: with no status code and no oui context, classifyError gives the
\* category of the first pattern matching the message or the name, in the
\* order cors, network, timeout, server, validation, auth, config, and unknown
\* when none matches.
C15_FirstPatternWins ==
    (IsClassifyCall /\ apiCall.context.statusCode = NoStatus
        /\ apiCall.context.type # "oui") =>
        apiResult.value.category = FirstTextCategory(apiCall.error)

\* C15 witness: a message matching both the network and the timeout pattern
\* has been classified network.
C15_Witness ==
    /\ IsClassifyCall /\ apiCall.context.statusCode = NoStatus
    /\ apiCall.context.type = "search"
    /\ apiCall.error.message = "Network error: connection timed out"
    /\ apiResult.value.category = "network"

\* C16: every ClassifiedError that classifyError or createErrorFromResponse
\* produces is retryable exactly when its category is network, server,
\* timeout, config or unknown, and not retryable exactly when it is cors,
\* validation, auth or oui.
C16_RetryableByCategory ==
    (IsClassifyCall \/ IsCreateFromResponseCall) =>
        /\ apiResult.value.category \in ErrorCategory
        /\ apiResult.value.isRetryable =
              (apiResult.value.category \in
                  {"network", "server", "timeout", "config", "unknown"})

\* C16 witness: an error matched by the validation pattern has been
\* classified validation and not retryable.
C16_Witness ==
    /\ IsClassifyCall /\ apiCall.context.statusCode = NoStatus
    /\ apiCall.error.message = "Validation failed: MAC already exists"
    /\ apiResult.value.category = "validation"
    /\ ~apiResult.value.isRetryable

\* The message the claim names for a response: the detail, else error, else
\* message field of a JSON object body, and the HTTP status line otherwise.
ResponseMessage(response) ==
    IF response.body.kind = "object" /\ response.body.detail \notin {Undefined, ""}
    THEN response.body.detail
    ELSE IF response.body.kind = "object" /\ response.body.error \notin {Undefined, ""}
    THEN response.body.error
    ELSE IF response.body.kind = "object" /\ response.body.message \notin {Undefined, ""}
    THEN response.body.message
    ELSE "HTTP " \o StatusText(response.status) \o ": " \o response.statusText

\* C17: createErrorFromResponse never rejects: for every status and body it
\* resolves to the classification, with statusCode = response.status, of the
\* body's detail, else error, else message field, else the HTTP status line.
C17_CreateFromResponse ==
    IsCreateFromResponseCall =>
        /\ apiResult.settled = "resolved"
        /\ IsClassified(apiResult.value)
        /\ apiResult.value =
              classifyError(NewError(ResponseMessage(apiCall.response)),
                            [apiCall.context EXCEPT !.statusCode = apiCall.response.status])

\* C17 witness: a 500 response whose JSON body has an error and a message field
\* but no detail has been classified from the error field.
C17_Witness ==
    /\ IsCreateFromResponseCall
    /\ apiCall.response.status = 500
    /\ apiCall.response.body = ObjectBody(Undefined, "Proxy error", "connect ECONNREFUSED")
    /\ apiResult.value.category = "server"
    /\ apiResult.value.technicalDetail = "Proxy error"


(***************************************************************************)
(* Claims about the MAC utilities (SpecMac)                                *)
(***************************************************************************)
IsGenerateCall == apiCall.op = "generateSequentialMacs"
IsNormalizeCall == apiCall.op = "normalizeMac"

\* The number after the one written by the uppercase hex digits d, digit by
\* digit with carry; the text grows by a digit when every digit is F.
RECURSIVE HexSucc(_)
HexSucc(d) ==
    IF d = "" THEN "1"
    ELSE IF CharAt(d, Len(d)) = "F"
    THEN HexSucc(SubSeq(d, 1, Len(d) - 1)) \o "0"
    ELSE SubSeq(d, 1, Len(d) - 1)
         \o CharAt(HexDigits, 1 + CHOOSE k \in 1..15 : CharAt(HexDigits, k) = CharAt(d, Len(d)))

RECURSIVE HexPlus(_, _)
HexPlus(d, i) == IF i = 0 THEN d ELSE HexPlus(HexSucc(d), i - 1)

\* The number written by the digits d exceeds 0xFFFFFFFFFFFF: it has a nonzero
\* digit before its last twelve.
BeyondMacRange(d) == \E i \in 1..(Len(d) - 12) : CharAt(d, i) # "0"

\* The canonical address of a number within the range: its last twelve digits,
\* zero-filled, in pairs joined by ':'.
CanonicalOf(d) ==
    LET t == "000000000000" \o d
        u == SubSeq(t, Len(t) - 11, Len(t))
    IN  SubSeq(u, 1, 2) \o ":" \o SubSeq(u, 3, 4) \o ":" \o SubSeq(u, 5, 6) \o ":"
        \o SubSeq(u, 7, 8) \o ":" \o SubSeq(u, 9, 10) \o ":" \o SubSeq(u, 11, 12)

\* x comes before y, for texts of one length over digits, uppercase hex letters
\* and ':' at the same places.
TextLess(x, y) ==
    \E i \in 1..Len(x) :
        /\ SubSeq(x, 1, i - 1) = SubSeq(y, 1, i - 1)
        /\ \E a \in 1..16, b \in 1..16 :
              /\ a < b
              /\ CharAt(HexDigits, a) = CharAt(x, i)
              /\ CharAt(HexDigits, b) = CharAt(y, i)

\* The base of the call, as uppercase hex digits, when it writes a number.
BaseDigits == ToUpperCase(RemoveColons(apiCall.base))
IsNumberBase ==
    /\ BaseDigits # ""
    /\ \A i \in 1..Len(BaseDigits) : Has(HexDigits, CharAt(BaseDigits, i))

\* The offsets below n at which base + offset exceeds 0xFFFFFFFFFFFF.
Offending(n) == {i \in 0..(n - 1) : BeyondMacRange(HexPlus(BaseDigits, i))}

\* C18: when base + i exceeds 0xFFFFFFFFFFFF for some offset i below the
\* count (SequenceCount, the number of addresses the code generates), the
\* generation fails with no address list (no partial sequence, no
\* wrapped-around address) and an overflow error naming the first offending
\* offset; in particular base FF:FF:FF:FF:FF:FF with count 4 fails.
C18_OverflowFailsWhole ==
    (IsGenerateCall /\ IsNumberBase /\ Offending(SequenceCount) # {}) =>
        /\ ~apiResult.success
        /\ apiResult.macs = <<>>
        /\ apiResult.error =
              "MAC overflow: Cannot generate MAC +"
              \o CharAt(Digits, 1 + CHOOSE i \in Offending(SequenceCount) :
                                        \A j \in Offending(SequenceCount) : i <= j)
              \o " (exceeds 48-bit limit)"

\* C18 witness: the generation from FF:FF:FF:FF:FF:FF with count 4 has failed
\* with the overflow error for offset 1.
C18_Witness ==
    /\ IsGenerateCall
    /\ apiCall.base = "FF:FF:FF:FF:FF:FF" /\ apiCall.count = 4
    /\ ~apiResult.success /\ apiResult.macs = <<>>
    /\ apiResult.error = "MAC overflow: Cannot generate MAC +1 (exceeds 48-bit limit)"

\* The result is the n addresses base, base + 1, ..., in canonical form and
\* strictly increasing.
IsSequenceOf(n) ==
    /\ apiResult.success
    /\ Len(apiResult.macs) = n
    /\ \A k \in 1..n : apiResult.macs[k] = CanonicalOf(HexPlus(BaseDigits, k - 1))
    /\ \A k \in 1..n : validateMacFormat(apiResult.macs[k])
    /\ \A k \in 1..(n - 1) : TextLess(apiResult.macs[k], apiResult.macs[k + 1])

C20_NormalizeCanonical ==
    IsNormalizeCall =>
        /\ apiResult = CanonicalOf(ToUpperCase(apiCall.digits))
        /\ validateMacFormat(apiResult)
        /\ isCompleteMac(apiResult)

\* C20 witness: twelve lowercase digits in dot-grouped style have been
\* normalized to the canonical address.
C20_Witness ==
    /\ IsNormalizeCall
    /\ apiCall.input = "a1b2.c3d4.e5f6"
    /\ apiResult = "A1:B2:C3:D4:E5:F6"


\* C21: normalizeMac is idempotent on every input of twelve hex digits, in any
\* style: normalizing its result gives the result again.
C21_NormalizeIdempotent ==
    IsNormalizeCall => normalizeMac(apiResult) = apiResult

\* C21 witness: twelve digits typed with hyphens have been normalized, and the
\* result differs from the input.
C21_Witness ==
    /\ IsNormalizeCall
    /\ apiCall.input = "A1-b2-C3-d4-E5-f6"
    /\ apiResult = "A1:B2:C3:D4:E5:F6"

IsTypingCall == apiCall.op = "normalizeTyping"

\* The hex digits of the text x, in order and uppercased.
RECURSIVE UpperHexDigitsOf(_)
UpperHexDigitsOf(x) ==
    IF x = "" THEN ""
    ELSE UpperHexDigitsOf(SubSeq(x, 1, Len(x) - 1))
         \o (IF Has("0123456789abcdefABCDEF", CharAt(x, Len(x)))
             THEN ToUpperCase(CharAt(x, Len(x)))
             ELSE "")

\* r is the digits d with ':' after every two of them.
IsPairsOf(r, d) ==
    /\ Len(r) = Len(d) + (IF Len(d) = 0 THEN 0 ELSE (Len(d) - 1) \div 2)
    /\ \A i \in 1..Len(r) :
          IF i % 3 = 0 THEN CharAt(r, i) = ":"
          ELSE CharAt(r, i) = CharAt(d, i - (i \div 3))

IsForwardCall == apiCall.op = "proxy"

\* The backend has answered and its body has been read.
ResponseObtained ==
    IsForwardCall /\ apiCall.outcome.kind = "response" /\ apiCall.outcome.readable

\* The forwarding attempt has thrown or rejected.
ForwardingFailed ==
    IsForwardCall /\ ~(apiCall.outcome.kind = "response" /\ apiCall.outcome.readable)

\* The backend URL of a request: the base URL and the request's path and
\* query.
ExpectedTarget(url) ==
    "https://ldap-api.apps.prod-ocp4.corp.cableone.net"
        \o (IF url = Undefined THEN "" ELSE url)

\* C25: for every response the proxy obtains from the backend, whatever its
\* status, the proxy's response has the same status and the same body, has
\* Access-Control-Allow-Origin: *, and has the backend's Content-Type, or
\* application/json when the backend sent none.
C25_MirrorsResponse ==
    ResponseObtained =>
        /\ apiResult.response.status = apiCall.outcome.status
        /\ apiResult.response.body.kind = "text"
        /\ apiResult.response.body.bytes = apiCall.outcome.bytes
        /\ apiResult.response.allowOrigin = "*"
        /\ apiResult.response.contentType =
              (IF apiCall.outcome.contentType = Undefined
               THEN "application/json"
               ELSE apiCall.outcome.contentType)

\* C25, the part that holds: status and headers are as stated for every
\* response, and the body is the same when it is UTF-8 text without a byte
\* order mark.
C25_MirrorsUtf8Text ==
    ResponseObtained =>
        /\ apiResult.response.status = apiCall.outcome.status
        /\ apiResult.response.allowOrigin = "*"
        /\ apiResult.response.contentType =
              (IF apiCall.outcome.contentType = Undefined
               THEN "application/json"
               ELSE apiCall.outcome.contentType)
        /\ (\A i \in 1..Len(apiCall.outcome.bytes) :
                apiCall.outcome.bytes[i] \notin {233, 239})
              => apiResult.response.body.bytes = apiCall.outcome.bytes

\* C26: whenever the forwarding attempt throws or rejects, the proxy answers
\* 502 with a JSON body of exactly the fields error = 'Proxy error', message =
\* the cause's message ('Unknown proxy error' when the cause is no Error) and
\* target = the backend URL computed for the request.
C26_ProxyErrorEnvelope ==
    ForwardingFailed =>
        /\ apiResult.response.status = 502
        /\ apiResult.response.body.kind = "json"
        /\ apiResult.response.body.fields = <<"error", "message", "target">>
        /\ apiResult.response.body.error = "Proxy error"
        /\ apiResult.response.body.message =
              (IF apiCall.outcome.isError THEN apiCall.outcome.message
               ELSE "Unknown proxy error")
        /\ apiResult.response.body.target = ExpectedTarget(apiCall.req.url)

\* C26 witness: fetch rejected with a value that is no Error for a request with
\* a path, and the 502 envelope says 'Unknown proxy error'.
C26_Witness ==
    /\ ForwardingFailed
    /\ apiCall.outcome.kind = "reject" /\ ~apiCall.outcome.isError
    /\ apiCall.req.url = "/searchbymac/AA%3ABB%3ACC%3A00%3A00%3A01"
    /\ apiResult.response.status = 502
    /\ apiResult.response.body.message = "Unknown proxy error"

\* The bytes of a request body, chunk after chunk.
RECURSIVE ReceivedBytes(_)
ReceivedBytes(chunks) ==
    IF chunks = <<>> THEN <<>> ELSE Head(chunks) \o ReceivedBytes(Tail(chunks))

\* C27: every request is forwarded to the backend base URL followed by the
\* request's path and query string unmodified (the base URL alone when the
\* path is empty or undefined), with the same method; for POST and PUT the
\* whole request body is collected first and sent unchanged.
C27_ForwardsUnchanged ==
    IsForwardCall =>
        /\ apiResult.forwarded.url = ExpectedTarget(apiCall.req.url)
        /\ apiCall.req.method # Undefined
              => apiResult.forwarded.method = apiCall.req.method
        /\ apiCall.req.method \in {"POST", "PUT"}
              => apiResult.forwarded.body = ReceivedBytes(apiCall.req.chunks)

\* C27, the part that holds: URL and method are as stated, and the body of a
\* POST or PUT is sent unchanged when no chunk ends inside a character.
C27_ForwardsWholeCharacters ==
    IsForwardCall =>
        /\ apiResult.forwarded.url = ExpectedTarget(apiCall.req.url)
        /\ apiCall.req.method # Undefined
              => apiResult.forwarded.method = apiCall.req.method
        /\ (/\ apiCall.req.method \in {"POST", "PUT"}
            /\ \A k \in 1..Len(apiCall.req.chunks) :
                   apiCall.req.chunks[k][Len(apiCall.req.chunks[k])] < 192)
              => apiResult.forwarded.body = ReceivedBytes(apiCall.req.chunks)

IsProxiedCall == apiCall.op = "proxied"

\* The ClassifiedError the client call ends with.
ClientError ==
    IF apiCall.call = "searchByMac"
    THEN apiResult.client.error.classifiedError
    ELSE apiResult.client.value.error

\* Two classifications that differ in their technical detail at most.
SameButDetail(a, b) ==
    [a EXCEPT !.technicalDetail = Undefined] = [b EXCEPT !.technicalDetail = Undefined]

\* What the client makes of a 502 the backend answers with an empty body.
Backend502 ==
    createErrorFromResponse(FetchResponse(502, "Bad Gateway", Body("empty")),
                            Context("search", Undefined))

\* C28: when a client call goes through the proxy and forwarding fails, the
\* client's ClassifiedError has category server and is retryable, as for a 502
\* the backend answers; the two differ in the technical detail only, which in
\* the proxy case comes from the envelope.
C28_ProxyFailureIsServerError ==
    IsProxiedCall =>
        /\ apiCall.outcome.kind = "reject" =>
              /\ ClientError.category = "server"
              /\ ClientError.isRetryable
              /\ SameButDetail(ClientError, Backend502)
              /\ ClientError.technicalDetail = apiResult.proxy.body.error
        /\ (apiCall.outcome.kind = "response" /\ apiCall.outcome.status = 502) =>
              /\ ClientError.category = "server"
              /\ ClientError.isRetryable
              /\ SameButDetail(ClientError, Backend502)

\* C28 witness: addHsd went through the proxy, the connection was refused, and
\* the client has a server failure whose detail is 'Proxy error'.
C28_Witness ==
    /\ IsProxiedCall
    /\ apiCall.call = "addHsd"
    /\ apiCall.outcome.kind = "reject"
    /\ apiCall.outcome.message = "connect ECONNREFUSED 127.0.0.1:8080"
    /\ apiResult.proxy.status = 502
    /\ ~apiResult.client.value.success
    /\ apiResult.client.value.error.category = "server"
    /\ apiResult.client.value.error.technicalDetail = "Proxy error"


(***************************************************************************)
(* Claims about the page for four sequential addresses (SpecSeq)           *)
(***************************************************************************)
Terminal == {"complete", "error"}
ProvisioningNow == {k \in DOMAIN macs : macs[k].provisionState = "provisioning"}
CompleteCount == Cardinality({k \in DOMAIN macs : macs[k].provisionState = "complete"})

\* C1, the order of the requests: an addHsd request is issued for a tracked
\* address only when every address before it has its outcome (complete or
\* error) recorded.
C1_IssuedInOrder ==
    event.request.op = "addHsd" =>
        LET i == event.request.index + 1
        IN  /\ i \in DOMAIN macs
            /\ macs[i].mac = event.request.mac
            /\ \A j \in 1..(i - 1) : macs[j].provisionState \in Terminal

\* C1: during a provisioning run the addHsd request for address i+1 is not
\* issued until the outcome of address i has been recorded, requests are issued
\* in ascending address order, and at most one tracked address is in
\* provisionState 'provisioning' at any time.
C1_Original ==
    /\ C1_IssuedInOrder
    /\ Cardinality(ProvisioningNow) <= 1

\* C2: an addHsd request is never issued while a tracked address has
\* lookupStatus found unless the user confirmed the overwrite of that address,
\* on every path that starts provisioning (the provision action and the
\* provisioning-retry action).
C2_Original ==
    event.request.op = "addHsd" => ~event.request.unconfirmedOverwrite

\* C2, second sentence: the confirmation dialog opens only when a tracked
\* address is found, so with none found the provision action proceeds directly.
C2_DirectWhenNoneFound ==
    [][(~showConfirmDialog /\ showConfirmDialog') => FoundMacs(macs) # {}]_vars

\* C3: validate moves the workflow from input to status only for an address
\* that is complete, format-valid and has an approved OUI (an allow-list that
\* cannot be loaded approves nothing); a validate that ends in a rejection
\* leaves the step and the tracked addresses as they are and issues no
\* searchByMac or addHsd request.
C3_ValidateGate ==
    [][/\ (currentStep = "input" /\ currentStep' # "input") =>
              event'.entered /\ currentStep' = "status"
       /\ event'.entered =>
              LET entering == runs[event'.run].mac
              IN  /\ isCompleteMac(entering)
                  /\ validateMacFormat(entering)
                  /\ extractOui(entering) \in ApprovedOuis
       /\ event'.validation.outcome = "accepted" =>
              /\ event'.validation.ouiLoaded
              /\ extractOui(event'.validation.mac) \in ApprovedOuis
       /\ event'.validation.outcome \in {"incomplete", "malformed", "oui-rejected"} =>
              /\ currentStep' = currentStep
              /\ macs' = macs
              /\ ~event'.entered
              /\ event'.request.op = "none"
      ]_vars

\* C3 witness: a validate has just moved the page to step status with four
\* generated addresses and the first lookup issued.
C3_Witness ==
    /\ event.entered
    /\ currentStep = "status"
    /\ Len(macs) = 4
    /\ event.request.op = "searchByMac"

\* C4: each address's lookupStatus is decided by its own lookup (rejected ->
\* unknown, records -> found, empty list -> not-found), and once no handler is
\* in flight any more no tracked address remains 'checking'.
C4_Original ==
    /\ event.response.op = "searchByMac" =>
           LET i == event.response.index + 1
           IN  /\ i \in DOMAIN macs
               /\ macs[i].mac = event.response.mac
               /\ macs[i].status =
                      CASE event.response.answer = "rejected" -> "unknown"
                        [] event.response.answer = "records" -> "found"
                        [] OTHER -> "not-found"
    /\ runs = <<>> => \A k \in DOMAIN macs : macs[k].status # "checking"

\* C4, the part about one lookup: a settled lookup for address i changes the
\* lookupStatus of address i only, in the list of the handler that made it,
\* and that handler goes on with the next address.
C4_OwnLookupOnly ==
    [][event'.response.op = "searchByMac" =>
          LET r == runs[event'.run]
              i == event'.response.index + 1
          IN  /\ \A j \in DOMAIN macs' \ {i} : macs'[j] = r.updatedMacs[j]
              /\ i < Len(r.updatedMacs) =>
                     /\ event'.request.op = "searchByMac"
                     /\ event'.request.index = i
      ]_vars

\* C5: reset leaves the workflow in step input with no tracked address record,
\* no status or provisioning error and no open confirmation, and no tracked
\* address record reappears until a validate enters step status again.
C5_Original ==
    [][/\ clicks'.reset > clicks.reset =>
              /\ currentStep' = "input"
              /\ macs' = <<>>
              /\ statusError' = ""
              /\ provisionError' = NoError
              /\ ~showConfirmDialog'
       /\ (macs = <<>> /\ macs' # <<>>) => event'.entered
      ]_vars

\* C6: a failed or thrown addHsd for address i marks only address i as 'error'
\* and the run goes on with the next address; when the run ends every address
\* is 'complete' or 'error' and the summary reports the number of addresses in
\* 'complete' out of the number of tracked addresses.
C6_ErrorsContained ==
    /\ [](event.toast.title = "Provisioning Complete" =>
             /\ \A k \in DOMAIN macs : macs[k].provisionState \in Terminal
             /\ event.toast.description =
                    "Provisioned " \o NumText(CompleteCount) \o " of "
                        \o NumText(Len(macs)) \o " MACs successfully")
    /\ [][event'.response.op = "addHsd" =>
             LET r == runs[event'.run]
                 i == event'.response.index + 1
             IN  /\ macs'[i].provisionState =
                        IF event'.response.answer = "success" THEN "complete" ELSE "error"
                 /\ \A j \in DOMAIN macs' \ {i, i + 1} : macs'[j] = r.updatedMacs[j]
                 /\ i < r.total =>
                        /\ event'.request.op = "addHsd"
                        /\ event'.request.index = i
                        /\ macs'[i + 1] =
                               [r.updatedMacs[i + 1] EXCEPT !.provisionState = "provisioning"]
                 /\ i = r.total => event'.toast.title = "Provisioning Complete"
         ]_vars

\* C6 witness: a run has ended whose summary covers a failed address followed
\* by a provisioned one.
C6_Witness ==
    /\ event.toast.title = "Provisioning Complete"
    /\ \E i, j \in DOMAIN macs :
           /\ i < j
           /\ macs[i].provisionState = "error"
           /\ macs[j].provisionState = "complete"

\* A failed status lookup has just been handled.
LookupFailedNow ==
    event.response.op = "searchByMac" /\ event.response.answer = "rejected"

\* The Provision MAC button is rendered.
ProvisionEnabled == currentStep = "status" /\ macs # <<>> /\ ~isLoading

FinalLookupStatus == {"found", "not-found", "unknown"}

\* C30: for each tracked address, between its creation and the next reset,
\* exactly one searchByMac is issued (the one issued when the record is
\* created) and lookupStatus leaves 'checking' once, for found, not-found or
\* unknown, and never changes afterwards, whatever the user does, the
\* status-error retry included.
C30_OneLookupPerAddress ==
    [][/\ (event'.request.op = "searchByMac" /\ event'.request # event.request)
             => macs = <<>>
       /\ (macs # <<>> /\ macs' # <<>> /\ macs[1].status \in FinalLookupStatus)
             => macs'[1].status = macs[1].status]_vars

\* A step of a provisioning action: startProvisioning issues its addHsd, or
\* handles the answer to it.
ProvisioningStep ==
    event'.request.op = "addHsd" \/ event'.response.op = "addHsd"

\* C31: a tracked address's provisionState changes only as an effect of a
\* provisioning action (provision, confirm, provisioning retry): validation,
\* the completion of a status lookup and the status retry leave it as it is,
\* so that a recorded 'provisioning', 'complete' or 'error' is never replaced
\* by 'pending' without a reset.
C31_ProvisionStateFrame ==
    [][(macs # <<>> /\ macs' # <<>>) =>
          /\ macs'[1].provisionState # macs[1].provisionState => ProvisioningStep
          /\ macs[1].provisionState \in {"provisioning", "complete", "error"}
                => macs'[1].provisionState # "pending"]_vars

\* The addresses and config files validate sets up for the base address b: b,
\* b + 1, ... in canonical form, address i with the i-th config file, all
\* 'checking' and 'pending'.
IsFreshListOf(ms, b) ==
    /\ Len(ms) = 4
    /\ \A j \in 1..Len(ms) :
          /\ ms[j].mac = CanonicalOf(HexPlus(RemoveColons(b), j - 1))
          /\ ms[j].index = j - 1
          /\ ms[j].configfile = "cfg" \o CharAt("0123", j)
          /\ ms[j].status = "checking"
          /\ ms[j].provisionState = "pending"

\* C32: validating the same address again after a reset sets up the same
\* ordered list of tracked addresses and the same configuration assignment,
\* whatever happened before the reset: address i gets the i-th configured
\* config file, and every addHsd request carries that config file with the
\* account and isp of the defaults.
C32_ValidateReproduces ==
    /\ event.entered =>
          /\ event.request.op = "searchByMac"
          /\ event.request.mac \in FieldContents
          /\ IsFreshListOf(macs, event.request.mac)
    /\ event.request.op = "addHsd" =>
          /\ \E b \in FieldContents \ {""} :
                event.request.mac =
                    CanonicalOf(HexPlus(RemoveColons(b), event.request.index))
          /\ event.request.configfile = "cfg" \o CharAt("0123", event.request.index + 1)
          /\ event.request.account = "acct"
          /\ event.request.isp = "isp"

\* C32 witness: an address was validated, a request failed, the page was reset,
\* and the second validation of the address has set up the four addresses
\* again.
C32_Witness ==
    /\ event.entered
    /\ clicks.reset = 1 /\ clicks.validate = 2
    /\ backend.failures = 1
    /\ baseMac = "A1:B2:C3:00:00:00"
    /\ Len(macs) = 4
    /\ macs[4].mac = "A1:B2:C3:00:00:03" /\ macs[4].configfile = "cfg3"

RetryableCategories == {"network", "server", "timeout", "config", "unknown"}
FinalCategories == {"cors", "validation", "auth", "oui"}

\* A step in which a handleMacValidated run starts without a Validate click:
\* the Retry of the status error banner.
StatusRetryStep ==
    /\ Len(runs') = Len(runs) + 1
    /\ runs'[Len(runs')].kind = "validate"
    /\ clicks' = clicks

\* A step in which a startProvisioning run starts, neither from the Provision
\* MAC button nor from the confirmation dialog: the Retry of the provisioning
\* error banner.
ProvisionRetryStep ==
    /\ Len(runs') = Len(runs) + 1
    /\ runs'[Len(runs')].kind = "provision"
    /\ ~showConfirmDialog
    /\ ~ProvisionEnabled

\* C33: the status retry and the provisioning retry can be taken only while
\* the recorded error is retryable: after a failure of category cors,
\* validation, auth or oui there is no retry, and after one of category
\* network, server, timeout, config or unknown the retry is offered.
C33_RetryOnlyWhenRetryable ==
    [][/\ StatusRetryStep =>
             IsClassified(statusError) /\ statusError.category \in RetryableCategories
       /\ ProvisionRetryStep =>
             IsClassified(provisionError)
             /\ provisionError.category \in RetryableCategories
       /\ IsClassified(statusError) =>
             /\ statusError.category \in RetryableCategories \cup FinalCategories
             /\ statusError.isRetryable = (statusError.category \in RetryableCategories)
       /\ IsClassified(provisionError) =>
             /\ provisionError.category \in RetryableCategories \cup FinalCategories
             /\ provisionError.isRetryable =
                   (provisionError.category \in RetryableCategories)]_vars

\* C33 witness: a provisioning failure of category validation is on the page,
\* with no retry, while the page is in step provisioning.
C33_Witness ==
    /\ IsClassified(provisionError)
    /\ provisionError.category = "validation"
    /\ ~provisionError.isRetryable
    /\ currentStep = "provisioning"
    /\ macs # <<>> /\ macs[1].provisionState = "error"

\* The address of the request the suspended handler r waits for.
RequestMac(r) == r.updatedMacs[r.i].mac

\* C34: under every interleaving of user actions and request completions, the
\* workflow never has two addHsd requests, nor two searchByMac requests, in
\* flight at the same time for the same address.
C34_NoOverlappingRequests ==
    \A j, k \in DOMAIN runs :
        (/\ j # k
         /\ runs[j].pc \in {"search", "addHsd"}
         /\ runs[j].pc = runs[k].pc)
            => RequestMac(runs[j]) # RequestMac(runs[k])

(***************************************************************************)
(* Claims about the server logger                                          *)
(***************************************************************************)
IsLoggedCall == apiCall.op \in {"searchByMac", "addHsd"}

\* C35: the outcome of searchByMac and of addHsd, which is all the workflow
\* takes from them, is the same whether the log sink accepts, rejects or
\* never answers the log posts; a logger call never throws into its caller
\* and never makes it wait.
C35_LogSinkHasNoInfluence ==
    IsLoggedCall =>
        /\ apiResult = apiCall.unlogged
        /\ apiResult # Pending
        /\ \A sink \in LogSinks :
            /\ Logged(apiCall.log, sink, apiCall.unlogged) = apiResult
            /\ \A k \in DOMAIN apiCall.log :
                LogCall(apiCall.log[k].level, apiCall.log[k].message, sink).effect = "returns"

\* A search against the backend that made three logger calls while the sink
\* never answered any of them, and resolved all the same.
C35_Witness ==
    /\ apiCall.op = "searchByMac"
    /\ ~apiCall.config.enableStubMode
    /\ apiCall.sink = "silent"
    /\ Len(apiCall.log) = 3
    /\ apiCall.posts[3].promise = "pending"
    /\ apiResult.settled = "resolved"

\* The end-to-end scenario so far: A1B2C3000000 was submitted once, nothing
\* was reset and the environment failed no request.
ScenarioRun ==
    /\ macs # <<>>
    /\ macs[1].mac = "A1:B2:C3:00:00:00"
    /\ clicks.validate = 1
    /\ clicks.reset = 0
    /\ backend.failures = 0

\* The one address of the scenario, provisioned.
ScenarioComplete ==
    /\ ScenarioRun
    /\ runs = <<>>
    /\ macs = <<[MacStatus("A1:B2:C3:00:00:00", 0, "cfg0") EXCEPT
                    !.status = "not-found", !.provisionState = "complete"]>>

\* C36 as stated: in stub mode the status check of the scenario answers
\* not-found and its provisioning succeeds, which ends in the final state with
\* A1:B2:C3:00:00:00 complete.
C36_StubScenario ==
    (ScenarioRun /\ config.enableStubMode) =>
        /\ event.response.op = "searchByMac" => event.response.answer = "empty"
        /\ event.response.op = "addHsd" =>
               (event.response.answer = "success" /\ ScenarioComplete)

\* C36, amended: submitting A1B2C3000000 with approved OUI A1B2C3 once, when
\* the status check answers not-found and the addHsd answers success, ends in
\* a final state that shows exactly one tracked address, A1:B2:C3:00:00:00,
\* with provisionState = complete: the successful addHsd answer leaves that
\* state with no handler in flight, and the state stays until the user starts
\* over.
C36_EndToEnd ==
    [][/\ (/\ ScenarioRun
           /\ macs[1].status = "not-found"
           /\ event'.response.op = "addHsd"
           /\ event'.response.answer = "success")
              => /\ ScenarioComplete'
                 /\ ~isLoading'
                 /\ provisionError' = NoError
                 /\ event'.toast.title = "Provisioning Complete"
       /\ (ScenarioComplete /\ clicks' = clicks)
              => (ScenarioComplete' /\ macs' = macs)]_vars

\* The final state of the scenario, against a backend that holds no record.
C36_Witness ==
    /\ ScenarioComplete
    /\ ~config.enableStubMode
    /\ event.response.op = "addHsd"
    /\ event.response.mac = "A1:B2:C3:00:00:00"
    /\ currentStep = "provisioning"

\* C37: after reset, no new addHsd request is issued until the user validates
\* an address again and triggers provisioning again; in particular a
\* provisioning run that was in progress when reset was invoked issues no
\* request for its remaining addresses.  Reset puts the page in step 'input',
\* and only a validation followed by the provision action brings it back to
\* step 'provisioning': every addHsd request is issued in that step, by a
\* handler whose addresses are the tracked ones.
C37_NoRequestAfterReset ==
    event.request.op = "addHsd" =>
        /\ currentStep = "provisioning"
        /\ event.request.index + 1 \in DOMAIN macs
        /\ macs[event.request.index + 1].mac = event.request.mac

\* C38: no addHsd request is ever issued while a tracked address has
\* lookupStatus 'checking': provisioning, a provisioning retry included, can
\* start only after the status lookup of the tracked addresses has finished.
C38_NoProvisionWhileChecking ==
    event.request.op = "addHsd" =>
        \A k \in DOMAIN macs : macs[k].status # "checking"

\* handleMacValidated has just returned early: the sequence could not be
\* generated, or the provisioning defaults could not be loaded.
ValidationGaveUp ==
    \/ event'.toast.title = "MAC Generation Error"
    \/ /\ event'.toast.title = "Configuration Error"
       /\ runs[event'.run].kind = "validate"

====
